---- MODULE Spec2Model ----
(***************************************************************************)
(* KONCHAT fuel-station report bot: the report parser (src/parser.py) as   *)
(* the bot's report handler drives it (src/bot.py, handle_report).         *)
(*                                                                         *)
(* A report text is a sequence of lines.  A line is a label (the words of  *)
(* the line that are not numbers or dates) followed by date tokens or by   *)
(* numeric fields.  Python's string and regular-expression primitives      *)
(* (lower, in, len, split, re.sub, re.search) are tabulated on the finite  *)
(* vocabulary of labels the model's reports are written in; every table    *)
(* has an explicit domain, so a string outside the vocabulary is an        *)
(* evaluation error, never a silent default.  Numbers are integers.        *)
(***************************************************************************)
EXTENDS Integers, Sequences, FiniteSets, TLC

VARIABLES
    pc,           \* position of handle_report: idle, received, parsed, formatted
    now,          \* the system clock, in days since Epoch (datetime.now())
    report_text,  \* update.message.text, the argument of parse_daily_report
    result,       \* the value parse_daily_report returned
    raised,       \* TRUE when an exception left parse_daily_report
    log,          \* the logger.info line of step 5 naming the fuel-data source
    db_data,      \* the value format_for_database returned
    earlier,      \* the record of the call before, when the text is parsed twice
    parser,       \* the ReportParser object shared by concurrent calls (self)
    calls,        \* the concurrent calls of parser.parse_daily_report: locals of each
    database,     \* the committed tables of database.py
    handler,      \* handle_report from its duplicate check on: position and locals
    txn,          \* the connection of db_cursor: open or not, and what it wrote
    saves,        \* per (station_name, report_date) of a message, the save_report
                  \* calls that returned True
    reports,      \* the rows of the reports table of services.py
    service,      \* the calls of services.py so far: what was saved, what the last
                  \* report_exists was asked and returned
    user_selections,  \* bot.py's user_selections: per user the station and the
                  \* waiting_for_date entry, and the shared station_mapping
    shown,        \* per user, the buttons of the station keyboard on their screen
    last_update   \* the last update the bot handled, and what came of it

parserVars == <<pc, now, report_text, result, raised, log, db_data, earlier, parser, calls>>
storeVars == <<database, handler, txn, saves>>
servicesVars == <<reports, service>>
botVars == <<user_selections, shown, last_update>>

vars == <<pc, now, report_text, result, raised, log, db_data, earlier, parser, calls,
          database, handler, txn, saves, reports, service,
          user_selections, shown, last_update>>

\* ---------------------------------------------------------------- bounds
MaxLines == 4       \* lines of a report built from SectionLines
MaxDateLines == 3   \* lines of a report built from DateLines
MaxClock == 1       \* days the clock advances
MaxCalls == 2       \* concurrent calls on one parser
MaxMessages == 3    \* messages handle_report takes to the database
MaxServiceCalls == 3  \* calls of services.py

\* ------------------------------------------------------- Python helpers
\* dict.get(key, default)
Get(rec, key, default) == IF key \in DOMAIN rec THEN rec[key] ELSE default

\* rec[key] = val
Put(rec, key, val) ==
    [k \in DOMAIN rec \cup {key} |-> IF k = key THEN val ELSE rec[k]]

\* rec.update(other)
Update(rec, other) ==
    [k \in DOMAIN rec \cup DOMAIN other |-> IF k \in DOMAIN other THEN other[k] ELSE rec[k]]

Range(s) == {s[i] : i \in DOMAIN s}

RECURSIVE SumOver(_, _)
\* sum(item[field] for item in seq)
SumOver(seq, field) ==
    IF seq = <<>> THEN 0 ELSE seq[1][field] + SumOver(Tail(seq), field)

Abs(n) == IF n < 0 THEN -n ELSE n

RECURSIVE Flatten(_)
\* the concatenation of a sequence of sequences
Flatten(seqs) == IF seqs = <<>> THEN <<>> ELSE seqs[1] \o Flatten(Tail(seqs))


\* ------------------------------------------------------- string tables
DEFAULT_FUEL_MAPPINGS ==
    << <<"Diesel", "Diesel">>,
       <<"DIESEL", "Diesel">>,
       <<"diesel", "Diesel">>,
       <<"DO", "Diesel">>,
       <<"do", "Diesel">>,
       <<"ប្រេងម៉ាស៊ូត", "Diesel">>,
       <<"Diesel Oil", "Diesel">>,
       <<"ម៉ាស៊ូត", "Diesel">>,
       <<"សាំងម៉ាស៊ូត", "Diesel">>,
       <<"Regular", "Regular">>,
       <<"REGULAR", "សាំង EA92 - T2">>,
       <<"regular", "Regular">>,
       <<"EA92", "Regular">>,
       <<"ea92", "Regular">>,
       <<"សាំង", "Regular">>,
       <<"Gasoline", "Regular">>,
       <<"Petrol", "Regular">>,
       <<"Unleaded", "Regular">>,
       <<"ធម្មតា", "Regular">>,
       <<"សាំងធម្មតា", "សាំង EA92 - T2">>,
       <<"Super", "Super">>,
       <<"SUPER", "Super">>,
       <<"super", "Super">>,
       <<"EA95", "Super">>,
       <<"ea95", "Super">>,
       <<"សាំងស៊ុបពែរ", "Super">>,
       <<"Premium", "Super">>,
       <<"premium", "Super">>,
       <<"Super Premium", "Super">>,
       <<"ស៊ុបពែរ", "Super">>,
       <<"សាំងប្រេមីយ៉ូម", "Super">> >>

StrLower ==
    ("" :> "" @@ "Station X" :> "station x" @@ "Report" :> "report"
     @@ "Summary Report" :> "summary report" @@ "Product Volume Amount" :> "product volume amount" @@ "Pump 1" :> "pump 1"
     @@ "Summary" :> "summary" @@ "Total" :> "total" @@ "Station" :> "station"
     @@ "ស្ថានីយ៍" :> "ស្ថានីយ៍" @@ "Diesel" :> "diesel" @@ "DIESEL" :> "diesel"
     @@ "DO" :> "do" @@ "Regular" :> "regular" @@ "REGULAR" :> "regular"
     @@ "regular" :> "regular" @@ "EA92" :> "ea92" @@ "Ea92" :> "ea92"
     @@ "Super" :> "super" @@ "Premium" :> "premium" @@ "Kerosene" :> "kerosene"
     @@ "Diesel Fuel" :> "diesel fuel" @@ "ម៉ាស៊ូត" :> "ម៉ាស៊ូត" @@ "សាំងធម្មតា" :> "សាំងធម្មតា"
     @@ "ស៊ុប95" :> "ស៊ុប95" @@ "Gas L" :> "gas l" @@ "Gas" :> "gas"
     @@ "Product" :> "product" @@ "Pump" :> "pump" @@ "to" :> "to"
     @@ "7" :> "7" @@ "5" :> "5" @@ "1" :> "1"
     @@ "Dec" :> "dec" @@ "December" :> "december" @@ "Feb" :> "feb"
     @@ "Foo" :> "foo" @@ "diesel" :> "diesel" @@ "do" :> "do"
     @@ "ប្រេងម៉ាស៊ូត" :> "ប្រេងម៉ាស៊ូត" @@ "Diesel Oil" :> "diesel oil" @@ "សាំងម៉ាស៊ូត" :> "សាំងម៉ាស៊ូត"
     @@ "ea92" :> "ea92" @@ "សាំង" :> "សាំង" @@ "Gasoline" :> "gasoline"
     @@ "Petrol" :> "petrol" @@ "Unleaded" :> "unleaded" @@ "ធម្មតា" :> "ធម្មតា"
     @@ "SUPER" :> "super" @@ "super" :> "super" @@ "EA95" :> "ea95"
     @@ "ea95" :> "ea95" @@ "សាំងស៊ុបពែរ" :> "សាំងស៊ុបពែរ" @@ "premium" :> "premium"
     @@ "Super Premium" :> "super premium" @@ "ស៊ុបពែរ" :> "ស៊ុបពែរ" @@ "សាំងប្រេមីយ៉ូម" :> "សាំងប្រេមីយ៉ូម")

StrLen ==
    ("" :> 0 @@ "Station X" :> 9 @@ "Report" :> 6 @@ "Summary Report" :> 14
     @@ "Product Volume Amount" :> 21 @@ "Pump 1" :> 6 @@ "Summary" :> 7 @@ "Total" :> 5
     @@ "Station" :> 7 @@ "ស្ថានីយ៍" :> 8 @@ "Diesel" :> 6 @@ "DIESEL" :> 6
     @@ "DO" :> 2 @@ "Regular" :> 7 @@ "REGULAR" :> 7 @@ "regular" :> 7
     @@ "EA92" :> 4 @@ "Ea92" :> 4 @@ "Super" :> 5 @@ "Premium" :> 7
     @@ "Kerosene" :> 8 @@ "Diesel Fuel" :> 11 @@ "ម៉ាស៊ូត" :> 7 @@ "សាំងធម្មតា" :> 10
     @@ "ស៊ុប95" :> 6 @@ "Gas L" :> 5 @@ "Gas" :> 3 @@ "Product" :> 7
     @@ "Pump" :> 4 @@ "to" :> 2 @@ "7" :> 1 @@ "5" :> 1
     @@ "1" :> 1 @@ "diesel" :> 6 @@ "do" :> 2 @@ "ប្រេងម៉ាស៊ូត" :> 12
     @@ "Diesel Oil" :> 10 @@ "សាំងម៉ាស៊ូត" :> 11 @@ "ea92" :> 4 @@ "សាំង" :> 4
     @@ "Gasoline" :> 8 @@ "Petrol" :> 6 @@ "Unleaded" :> 8 @@ "ធម្មតា" :> 6
     @@ "SUPER" :> 5 @@ "super" :> 5 @@ "EA95" :> 4 @@ "ea95" :> 4
     @@ "សាំងស៊ុបពែរ" :> 11 @@ "premium" :> 7 @@ "Super Premium" :> 13 @@ "ស៊ុបពែរ" :> 7
     @@ "សាំងប្រេមីយ៉ូម" :> 14)

SubstringsOf ==
    ("" :> {}
     @@ "station x" :> {}
     @@ "report" :> {}
     @@ "summary report" :> {"summary"}
     @@ "product volume amount" :> {"product", "volume", "amount"}
     @@ "pump 1" :> {"pump"}
     @@ "summary" :> {"summary"}
     @@ "total" :> {"total"}
     @@ "station" :> {}
     @@ "ស្ថានីយ៍" :> {}
     @@ "diesel" :> {"diesel"}
     @@ "do" :> {"do"}
     @@ "regular" :> {"regular"}
     @@ "ea92" :> {"ea92"}
     @@ "super" :> {"super"}
     @@ "premium" :> {"premium"}
     @@ "kerosene" :> {}
     @@ "diesel fuel" :> {"diesel"}
     @@ "ម៉ាស៊ូត" :> {"ម៉ាស៊ូត"}
     @@ "សាំងធម្មតា" :> {"សាំង", "ធម្មតា", "សាំងធម្មតា"}
     @@ "ស៊ុប95" :> {"ស៊ុប"}
     @@ "gas l" :> {}
     @@ "gas" :> {}
     @@ "product" :> {"product"}
     @@ "pump" :> {"pump"}
     @@ "to" :> {}
     @@ "7" :> {}
     @@ "5" :> {}
     @@ "1" :> {})

SuperstringKeys ==
    ("" :> {"diesel", "do", "ប្រេងម៉ាស៊ូត", "diesel oil", "ម៉ាស៊ូត", "សាំងម៉ាស៊ូត", "regular", "ea92", "សាំង", "gasoline", "petrol", "unleaded", "ធម្មតា", "សាំងធម្មតា", "super", "ea95", "សាំងស៊ុបពែរ", "premium", "super premium", "ស៊ុបពែរ", "សាំងប្រេមីយ៉ូម"}
     @@ "station x" :> {}
     @@ "report" :> {}
     @@ "summary report" :> {}
     @@ "product volume amount" :> {}
     @@ "pump 1" :> {}
     @@ "summary" :> {}
     @@ "total" :> {}
     @@ "station" :> {}
     @@ "ស្ថានីយ៍" :> {}
     @@ "diesel" :> {"diesel", "diesel oil"}
     @@ "do" :> {"do"}
     @@ "regular" :> {"regular"}
     @@ "ea92" :> {"ea92"}
     @@ "super" :> {"super", "super premium"}
     @@ "premium" :> {"premium", "super premium"}
     @@ "kerosene" :> {}
     @@ "diesel fuel" :> {}
     @@ "ម៉ាស៊ូត" :> {"ប្រេងម៉ាស៊ូត", "ម៉ាស៊ូត", "សាំងម៉ាស៊ូត"}
     @@ "សាំងធម្មតា" :> {"សាំងធម្មតា"}
     @@ "ស៊ុប95" :> {}
     @@ "gas l" :> {}
     @@ "gas" :> {"gasoline"}
     @@ "product" :> {}
     @@ "pump" :> {}
     @@ "to" :> {}
     @@ "7" :> {}
     @@ "5" :> {"ea95"}
     @@ "1" :> {})

CleanFuelType ==
    ("" :> "" @@ "Station X" :> "Station X" @@ "Report" :> "Report"
     @@ "Summary Report" :> "Summary Report" @@ "Product Volume Amount" :> "Product Volume Amount" @@ "Pump 1" :> "Pump 1"
     @@ "Summary" :> "Summary" @@ "Total" :> "Total" @@ "Station" :> "Station"
     @@ "ស្ថានីយ៍" :> "ស្ថានីយ៍" @@ "Diesel" :> "Diesel" @@ "DIESEL" :> "DIESE"
     @@ "DO" :> "DO" @@ "Regular" :> "Regular" @@ "REGULAR" :> "REGUAR"
     @@ "regular" :> "regular" @@ "EA92" :> "EA92" @@ "Ea92" :> "Ea92"
     @@ "Super" :> "Super" @@ "Premium" :> "Premium" @@ "Kerosene" :> "Kerosene"
     @@ "Diesel Fuel" :> "Diesel Fuel" @@ "ម៉ាស៊ូត" :> "ម៉ាស៊ូត" @@ "សាំងធម្មតា" :> "សាំងធម្មតា"
     @@ "ស៊ុប95" :> "ស៊ុប95" @@ "Gas L" :> "Gas" @@ "Gas" :> "Gas"
     @@ "Product" :> "Product" @@ "Pump" :> "Pump" @@ "to" :> "to"
     @@ "7" :> "7" @@ "5" :> "5" @@ "1" :> "1")

AlphaLabels ==
    {"Station X", "Report", "Summary Report", "Product Volume Amount", "Summary", "Total", "Station", "ស្ថានីយ៍", "Diesel", "DIESEL", "DO", "Regular", "REGULAR", "regular", "Super", "Premium", "Kerosene", "Diesel Fuel", "ម៉ាស៊ូត", "សាំងធម្មតា", "Gas L"}

LabelWords ==
    ("" :> <<>> @@ "Station X" :> <<"Station", "X">>
     @@ "Report" :> <<"Report">> @@ "Summary Report" :> <<"Summary", "Report">>
     @@ "Product Volume Amount" :> <<"Product", "Volume", "Amount">> @@ "Pump 1" :> <<"Pump", "1">>
     @@ "Summary" :> <<"Summary">> @@ "Total" :> <<"Total">>
     @@ "Station" :> <<"Station">> @@ "ស្ថានីយ៍" :> <<"ស្ថានីយ៍">>
     @@ "Diesel" :> <<"Diesel">> @@ "DIESEL" :> <<"DIESEL">>
     @@ "DO" :> <<"DO">> @@ "Regular" :> <<"Regular">>
     @@ "REGULAR" :> <<"REGULAR">> @@ "regular" :> <<"regular">>
     @@ "EA92" :> <<"EA92">> @@ "Ea92" :> <<"Ea92">>
     @@ "Super" :> <<"Super">> @@ "Premium" :> <<"Premium">>
     @@ "Kerosene" :> <<"Kerosene">> @@ "Diesel Fuel" :> <<"Diesel", "Fuel">>
     @@ "ម៉ាស៊ូត" :> <<"ម៉ាស៊ូត">> @@ "សាំងធម្មតា" :> <<"សាំងធម្មតា">>
     @@ "ស៊ុប95" :> <<"ស៊ុប95">> @@ "Gas L" :> <<"Gas", "L">>)

PumpNumber ==
    ("" :> "" @@ "Station X" :> "" @@ "Report" :> ""
     @@ "Summary Report" :> "" @@ "Product Volume Amount" :> "" @@ "Pump 1" :> "Pump 1"
     @@ "Summary" :> "" @@ "Total" :> "" @@ "Station" :> ""
     @@ "ស្ថានីយ៍" :> "" @@ "Diesel" :> "" @@ "DIESEL" :> ""
     @@ "DO" :> "" @@ "Regular" :> "" @@ "REGULAR" :> ""
     @@ "regular" :> "" @@ "EA92" :> "" @@ "Ea92" :> ""
     @@ "Super" :> "" @@ "Premium" :> "" @@ "Kerosene" :> ""
     @@ "Diesel Fuel" :> "" @@ "ម៉ាស៊ូត" :> "" @@ "សាំងធម្មតា" :> ""
     @@ "ស៊ុប95" :> "" @@ "Gas L" :> "")

LabelNumbers ==
    ("" :> <<>> @@ "Station X" :> <<>> @@ "Report" :> <<>>
     @@ "Summary Report" :> <<>> @@ "Product Volume Amount" :> <<>> @@ "Pump 1" :> <<1>>
     @@ "Summary" :> <<>> @@ "Total" :> <<>> @@ "Station" :> <<>>
     @@ "ស្ថានីយ៍" :> <<>> @@ "Diesel" :> <<>> @@ "DIESEL" :> <<>>
     @@ "DO" :> <<>> @@ "Regular" :> <<>> @@ "REGULAR" :> <<>>
     @@ "regular" :> <<>> @@ "EA92" :> <<>> @@ "Ea92" :> <<>>
     @@ "Super" :> <<>> @@ "Premium" :> <<>> @@ "Kerosene" :> <<>>
     @@ "Diesel Fuel" :> <<>> @@ "ម៉ាស៊ូត" :> <<>> @@ "សាំងធម្មតា" :> <<>>
     @@ "ស៊ុប95" :> <<>> @@ "Gas L" :> <<>>)

LabelDigitRuns ==
    ("" :> <<>> @@ "Station X" :> <<>> @@ "Report" :> <<>>
     @@ "Summary Report" :> <<>> @@ "Product Volume Amount" :> <<>> @@ "Pump 1" :> <<1>>
     @@ "Summary" :> <<>> @@ "Total" :> <<>> @@ "Station" :> <<>>
     @@ "ស្ថានីយ៍" :> <<>> @@ "Diesel" :> <<>> @@ "DIESEL" :> <<>>
     @@ "DO" :> <<>> @@ "Regular" :> <<>> @@ "REGULAR" :> <<>>
     @@ "regular" :> <<>> @@ "EA92" :> <<92>> @@ "Ea92" :> <<92>>
     @@ "Super" :> <<>> @@ "Premium" :> <<>> @@ "Kerosene" :> <<>>
     @@ "Diesel Fuel" :> <<>> @@ "ម៉ាស៊ូត" :> <<>> @@ "សាំងធម្មតា" :> <<>>
     @@ "ស៊ុប95" :> <<95>> @@ "Gas L" :> <<>>)

WordDigits ==
    ("1" :> 1 @@ "Amount" :> 0 @@ "DIESEL" :> 0 @@ "DO" :> 0
     @@ "Diesel" :> 0 @@ "EA92" :> 92 @@ "Ea92" :> 92 @@ "Fuel" :> 0
     @@ "Gas" :> 0 @@ "Kerosene" :> 0 @@ "L" :> 0 @@ "Premium" :> 0
     @@ "Product" :> 0 @@ "Pump" :> 0 @@ "REGULAR" :> 0 @@ "Regular" :> 0
     @@ "Report" :> 0 @@ "Station" :> 0 @@ "Summary" :> 0 @@ "Super" :> 0
     @@ "Total" :> 0 @@ "Volume" :> 0 @@ "X" :> 0 @@ "regular" :> 0
     @@ "ម៉ាស៊ូត" :> 0 @@ "សាំងធម្មតា" :> 0 @@ "ស៊ុប95" :> 95 @@ "ស្ថានីយ៍" :> 0)

LabelSansPrefix ==
    ("" :> <<"", "">>
     @@ "Station X" :> <<"X", "X">>
     @@ "Report" :> <<"Report", "Report">>
     @@ "Summary Report" :> <<"Summary Report", "Summary Report">>
     @@ "Product Volume Amount" :> <<"Product Volume Amount", "Product Volume Amount">>
     @@ "Pump 1" :> <<"Pump 1", "Pump 1">>
     @@ "Summary" :> <<"Summary", "Summary">>
     @@ "Total" :> <<"Total", "Total">>
     @@ "Station" :> <<"", "">>
     @@ "ស្ថានីយ៍" :> <<"", "">>
     @@ "Diesel" :> <<"Diesel", "Diesel">>
     @@ "DIESEL" :> <<"DIESEL", "DIESEL">>
     @@ "DO" :> <<"DO", "DO">>
     @@ "Regular" :> <<"Regular", "Regular">>
     @@ "REGULAR" :> <<"REGULAR", "REGULAR">>
     @@ "regular" :> <<"regular", "regular">>
     @@ "EA92" :> <<"EA92", "EA92">>
     @@ "Ea92" :> <<"Ea92", "Ea92">>
     @@ "Super" :> <<"Super", "Super">>
     @@ "Premium" :> <<"Premium", "Premium">>
     @@ "Kerosene" :> <<"Kerosene", "Kerosene">>
     @@ "Diesel Fuel" :> <<"Diesel Fuel", "Diesel Fuel">>
     @@ "ម៉ាស៊ូត" :> <<"ម៉ាស៊ូត", "ម៉ាស៊ូត">>
     @@ "សាំងធម្មតា" :> <<"សាំងធម្មតា", "សាំងធម្មតា">>
     @@ "ស៊ុប95" :> <<"ស៊ុប95", "ស៊ុប95">>
     @@ "Gas L" :> <<"Gas L", "Gas L">>)

StripPunctuation ==
    ("" :> "" @@ "DIESEL" :> "DIESEL" @@ "DO" :> "DO"
     @@ "Diesel" :> "Diesel" @@ "Diesel Fuel" :> "Diesel Fuel" @@ "EA92" :> "EA92"
     @@ "Ea92" :> "Ea92" @@ "Gas L" :> "Gas L" @@ "Kerosene" :> "Kerosene"
     @@ "Premium" :> "Premium" @@ "Product Volume Amount" :> "Product Volume Amount" @@ "Pump 1" :> "Pump 1"
     @@ "REGULAR" :> "REGULAR" @@ "Regular" :> "Regular" @@ "Report" :> "Report"
     @@ "Summary" :> "Summary" @@ "Summary Report" :> "Summary Report" @@ "Super" :> "Super"
     @@ "Total" :> "Total" @@ "X" :> "X" @@ "regular" :> "regular"
     @@ "ម៉ាស៊ូត" :> "ម៉ាស៊ូត" @@ "សាំងធម្មតា" :> "សាំងធម្មតា" @@ "ស៊ុប95" :> "ស៊ុប95")

StrStrip ==
    ("X" :> "X" @@ " X" :> "X" @@ "Y" :> "Y"
     @@ "" :> "" @@ "Diesel" :> "Diesel" @@ "Regular" :> "Regular"
     @@ "Kerosene" :> "Kerosene")

CategoryLower ==
    ("DIESEL" :> "diesel" @@ "REGULAR" :> "regular" @@ "SUPER" :> "super")

FuelCategory ==
    ("Diesel" :> "DIESEL" @@ "Regular" :> "REGULAR" @@ "Kerosene" :> "OTHER"
     @@ "" :> "OTHER")

\* x in s, for s lowercased
Contains(needle, hayLower) == needle \in SubstringsOf[hayLower]

\* any(keyword in s for keyword in keywords)
AnyKeywordIn(keywords, hayLower) == \E k \in keywords : Contains(k, hayLower)

\* ------------------------------------------------------------ the lines
\* A numeric field as written: "5", "-5", or "-" (no digit at all).
Num(v) == [neg |-> FALSE, digits |-> TRUE, val |-> v]
Neg(v) == [neg |-> TRUE, digits |-> TRUE, val |-> v]
Dash == [neg |-> TRUE, digits |-> FALSE, val |-> 0]

\* The text of a numeric field.
NumText(tok) ==
    (IF tok.neg THEN "-" ELSE "") \o (IF tok.digits THEN ToString(tok.val) ELSE "")

\* A field the number regex [\d,]+\.?\d* matches from its first character on.
IsPlain(tok) == tok.digits /\ ~tok.neg

\* A date as written.  fmt names the notation:
\*   "mon"    27-Dec-2025     "slashY" 27/12/2025   "slashy" 27/12/25
\*   "iso"    2025-12-27      "dashY"  27-12-2025   "dotY"   27.12.2025
\* mon is the month name of the "mon" notation ("" elsewhere); day and month
\* are written with two digits, the year with four ("slashy": two).
DateTok(fmt, d, m, y) == [fmt |-> fmt, d |-> d, m |-> m, y |-> y, mon |-> ""]
MonTok(d, mon, y) == [fmt |-> "mon", d |-> d, m |-> 0, y |-> y, mon |-> mon]

\* A line: label words, then either date tokens (two of them joined by the word
\* "to" when range) or numeric fields; delim is what separates the fields:
\* "tab" (a tab or a run of spaces) or "sp" (single spaces).
Line(label, delim, nums) ==
    [label |-> label, delim |-> delim, nums |-> nums, dates |-> <<>>, range |-> FALSE]
DateLine(label, dates, range) ==
    [label |-> label, delim |-> "sp", nums |-> <<>>, dates |-> dates, range |-> range]
Words(label) == Line(label, "sp", <<>>)
Blank == Words("")

\* line.strip() == ""
IsBlank(line) == line.label = "" /\ line.nums = <<>> /\ line.dates = <<>>

\* The reports of the model are written with these lines.
SectionLines ==
    { Words("Pump 1"),
      Words("Summary"),
      Words("Product Volume Amount"),
      Line("Diesel", "tab", <<Num(5), Num(10)>>),
      Line("DO", "sp", <<Num(7), Num(3)>>),
      Line("Regular", "sp", <<Neg(5), Num(10)>>),
      Line("Super", "tab", <<Num(0), Num(4)>>),
      Line("Total", "tab", <<Num(12), Num(13)>>) }

DateLines ==
    { Blank,
      Words("Station X"),
      DateLine("", <<DateTok("slashY", 5, 6, 2024)>>, FALSE),
      DateLine("", <<DateTok("slashY", 29, 2, 2023)>>, FALSE),
      DateLine("", <<DateTok("iso", 27, 12, 2025)>>, FALSE),
      DateLine("", <<DateTok("dashY", 6, 5, 2025)>>, FALSE),
      DateLine("", <<DateTok("dotY", 27, 12, 2025)>>, FALSE),
      DateLine("", <<MonTok(27, "Dec", 2025), MonTok(28, "December", 2025)>>, TRUE),
      DateLine("", <<MonTok(31, "Feb", 2025), MonTok(28, "Foo", 2025)>>, TRUE),
      DateLine("Summary Report", <<MonTok(27, "Dec", 2025), MonTok(28, "Dec", 2025)>>, TRUE),
      DateLine("Report", <<MonTok(30, "December", 2025)>>, FALSE),
      Line("", "sp", <<Num(7), Num(8), Num(2023)>>) }

\* Fuel labels, each on a one-line report "<label> TAB 5 TAB 10".
RawLabels ==
    { "Diesel", "DIESEL", "DO", "Regular", "REGULAR", "regular", "EA92", "Ea92",
      "Super", "Premium", "Kerosene", "Diesel Fuel", "ម៉ាស៊ូត", "សាំងធម្មតា",
      "ស៊ុប95", "Gas L" }

RECURSIVE SeqsUpTo(_, _)
\* the sequences over S of length at most n
SeqsUpTo(S, n) ==
    IF n = 0 THEN {<<>>}
    ELSE LET shorter == SeqsUpTo(S, n - 1)
         IN  shorter \cup {Append(s, x) : s \in shorter, x \in S}

Text(lines) == [is_text |-> TRUE, lines |-> lines]
\* a message that is no text (None): report_text.split raises AttributeError
NonText == [is_text |-> FALSE, lines |-> <<>>]

\* A fuel line followed by a total line: the volumes and amounts are chosen
\* around the tolerances of verify_totals_consistency (1 and 5 percent).
FuelVolumes == {100, 105}
TotalVolumes == {0, 90, 93, 95, 96, 99, 100, 106, 112}
TotalAmounts == {0, 93, 100}
TotalsReports ==
    {Text(<<Line("Diesel", "tab", <<Num(f), Num(100)>>),
            Line("Total", "tab", <<Num(v), Num(a)>>)>>) :
        f \in FuelVolumes, v \in TotalVolumes, a \in TotalAmounts}

\* First lines that are a station prefix or punctuation only, alone or
\* followed by a fuel line.
StationFirstLines ==
    { Words("Station"),
      Words("ស្ថានីយ៍"),
      Words("Station X"),
      Line("Station", "sp", <<Dash>>),
      Line("", "sp", <<Dash>>),
      Line("", "sp", <<Dash, Dash>>) }
StationReports ==
    {Text(<<first>> \o rest) :
        first \in StationFirstLines,
        rest \in {<<>>, <<Line("Diesel", "tab", <<Num(5), Num(10)>>)>>}}

\* One line of three numbers: the year has two, three or four digits.
NumericYears == {24, 124, 2024}
NumericDateReports ==
    {Text(<<Line("", "sp", <<Num(1), Num(2), Num(y)>>)>>) : y \in NumericYears}

\* A fuel line followed by a total line whose volume is negative and whose
\* amount is no number.
NegativeTotalReports ==
    {Text(<<Line("Diesel", "tab", <<Num(5), Num(10)>>),
            Line("Total", "tab", <<Neg(5), second>>)>>) : second \in {Dash, Neg(7)}}

Reports ==
    {Text(ls) : ls \in SeqsUpTo(SectionLines, MaxLines)}
    \cup {Text(ls) : ls \in SeqsUpTo(DateLines, MaxDateLines)}
    \cup {Text(<<Line(l, "tab", <<Num(5), Num(10)>>)>>) : l \in RawLabels}
    \cup TotalsReports
    \cup StationReports
    \cup NumericDateReports
    \cup NegativeTotalReports
    \cup {NonText}

\* ------------------------------------------------------------ the dates
\* datetime.date / datetime.datetime values are records [d, m, y].
IsLeap(y) == (y % 4 = 0 /\ y % 100 # 0) \/ y % 400 = 0

DaysInMonth(m, y) ==
    IF m = 2 THEN (IF IsLeap(y) THEN 29 ELSE 28)
    ELSE IF m \in {4, 6, 9, 11} THEN 30 ELSE 31

\* date(year, month, day) does not raise ValueError
ValidDate(d, m, y) ==
    /\ y \in 1..9999
    /\ m \in 1..12
    /\ d \in 1..DaysInMonth(m, y)

DateLess(a, b) ==
    \/ a.y < b.y
    \/ a.y = b.y /\ a.m < b.m
    \/ a.y = b.y /\ a.m = b.m /\ a.d < b.d

\* The clock: day 0 is Epoch, each tick is one day later.
Epoch == [d |-> 31, m |-> 12, y |-> 2025]

NextDay(dt) ==
    IF dt.d < DaysInMonth(dt.m, dt.y) THEN [dt EXCEPT !.d = dt.d + 1]
    ELSE IF dt.m < 12 THEN [d |-> 1, m |-> dt.m + 1, y |-> dt.y]
    ELSE [d |-> 1, m |-> 1, y |-> dt.y + 1]

RECURSIVE DateOfClock(_)
\* datetime.now() as a date
DateOfClock(t) == IF t = 0 THEN Epoch ELSE NextDay(DateOfClock(t - 1))

DigitChar == <<"0", "1", "2", "3", "4", "5", "6", "7", "8", "9">>
DigitChars == Range(DigitChar)
DigitValue(c) == CHOOSE n \in 0..9 : DigitChar[n + 1] = c

\* strftime("%d"), ("%m"), ("%y"): two digits, zero padded
TwoDigits(n) == <<DigitChar[((n \div 10) % 10) + 1], DigitChar[(n % 10) + 1]>>

\* StrftimeDMY with the year written in full, strftime("%d/%m/%Y")
StrftimeDMYFullYear(dt) ==
    TwoDigits(dt.d) \o <<"/">> \o TwoDigits(dt.m) \o <<"/">>
    \o TwoDigits(dt.y \div 100) \o TwoDigits(dt.y % 100)

\* date_obj.strftime("%d/%m/%y"): a string, as its characters
StrftimeDMY(dt) ==
    TwoDigits(dt.d) \o <<"/">> \o TwoDigits(dt.m) \o <<"/">> \o TwoDigits(dt.y % 100)

\* month_mapping of _parse_date_string: lowercased name -> abbreviation
month_mapping ==
    ("jan" :> "Jan" @@ "feb" :> "Feb" @@ "mar" :> "Mar" @@ "apr" :> "Apr"
     @@ "may" :> "May" @@ "jun" :> "Jun" @@ "jul" :> "Jul" @@ "aug" :> "Aug"
     @@ "sep" :> "Sep" @@ "oct" :> "Oct" @@ "nov" :> "Nov" @@ "dec" :> "Dec"
     @@ "january" :> "Jan" @@ "february" :> "Feb" @@ "march" :> "Mar"
     @@ "april" :> "Apr" @@ "june" :> "Jun" @@ "july" :> "Jul"
     @@ "august" :> "Aug" @@ "september" :> "Sep" @@ "october" :> "Oct"
     @@ "november" :> "Nov" @@ "december" :> "Dec")

\* strptime's %b: the month a three-letter abbreviation names
MonthOfAbbr ==
    ("Jan" :> 1 @@ "Feb" :> 2 @@ "Mar" :> 3 @@ "Apr" :> 4 @@ "May" :> 5 @@ "Jun" :> 6
     @@ "Jul" :> 7 @@ "Aug" :> 8 @@ "Sep" :> 9 @@ "Oct" :> 10 @@ "Nov" :> 11 @@ "Dec" :> 12)

\* strptime's %y: 00-68 are 2000-2068, 69-99 are 1969-1999
CenturyOf(yy) == IF yy < 69 THEN 2000 + yy ELSE 1900 + yy

\* _parse_date_string: <<date>>, or <<>> when it raises ValueError.  The month
\* name is normalised through month_mapping, then the formats are tried in the
\* order of date_formats; "%d-%m-%Y" is not among them.
ParseDateString(tok) ==
    LET asDate(d, m, y) == IF ValidDate(d, m, y) THEN <<[d |-> d, m |-> m, y |-> y]>> ELSE <<>>
    IN  CASE tok.fmt = "mon" ->
                 IF StrLower[tok.mon] \in DOMAIN month_mapping
                 THEN asDate(tok.d, MonthOfAbbr[month_mapping[StrLower[tok.mon]]], tok.y)
                 ELSE <<>>
          [] tok.fmt = "slashY" -> asDate(tok.d, tok.m, tok.y)
          [] tok.fmt = "slashy" -> asDate(tok.d, tok.m, CenturyOf(tok.y))
          [] tok.fmt = "iso" -> asDate(tok.d, tok.m, tok.y)
          [] tok.fmt = "dotY" -> asDate(tok.d, tok.m, tok.y)
          [] tok.fmt = "dashY" -> <<>>

\* self.date_patterns, in order: the text pattern k matches in a date token
\* (<<>> when it does not).  \d{1,2}/\d{1,2}/\d{2} also matches the head of
\* a d/m/Y date, up to the first two digits of its year.
date_patterns == <<"mon", "slashY", "slashy", "iso", "dashY", "dotY">>

PatternMatch(k, tok) ==
    IF tok.fmt = date_patterns[k] THEN <<tok>>
    ELSE IF date_patterns[k] = "slashy" /\ tok.fmt = "slashY"
         THEN <<[tok EXCEPT !.fmt = "slashy", !.y = tok.y \div 100]>>
         ELSE <<>>

RECURSIVE FindAll(_, _)
\* pattern.findall(line)
FindAll(k, dates) ==
    IF dates = <<>> THEN <<>>
    ELSE PatternMatch(k, dates[1]) \o FindAll(k, Tail(dates))

\* skip_keywords of extract_report_date
date_skip_keywords ==
    {"product", "volume", "amount", "summary", "pump",
     "diesel", "regular", "super", "gasoline", "petrol"}

\* date_range_pattern.search(line): two d-Mon-Y dates with "to" between them
RangeMatch(line) ==
    /\ line.range
    /\ Len(line.dates) >= 2
    /\ line.dates[1].fmt = "mon"
    /\ line.dates[2].fmt = "mon"

RECURSIVE SinglePatterns(_, _)
\* the loop over self.date_patterns on one line, from pattern k on:
\* <<date>> of the first pattern whose first match parses, else <<>>
SinglePatterns(line, k) ==
    IF k > Len(date_patterns) THEN <<>>
    ELSE LET matches == FindAll(k, line.dates)
             parsed == IF matches = <<>> THEN <<>> ELSE ParseDateString(matches[1])
         IN  IF parsed # <<>> THEN parsed ELSE SinglePatterns(line, k + 1)

\* one iteration of the first loop of extract_report_date: <<date>> when the
\* line returns a date, else <<>> (the loop goes on to the next line)
DateOfLine(line) ==
    IF AnyKeywordIn(date_skip_keywords, StrLower[line.label]) THEN <<>>
    ELSE IF RangeMatch(line)
         THEN ParseDateString(line.dates[1])      \* ValueError: continue
         ELSE SinglePatterns(line, 1)

\* the date of the first line that returns one, <<>> when none does; perLine
\* holds what each line returns
FirstDate(perLine) ==
    LET found == Flatten(perLine)
    IN  IF found = <<>> THEN <<>> ELSE <<found[1]>>

\* re.findall(r'\b\d{1,4}\b', text) on a date token
DateNumbers(tok) ==
    CASE tok.fmt = "mon" -> <<tok.d, tok.y>>
      [] tok.fmt = "iso" -> <<tok.y, tok.m, tok.d>>
      [] OTHER -> <<tok.d, tok.m, tok.y>>

\* re.findall(r'\b\d{1,4}\b', line)
NumbersOfLine(line) ==
    LET ofNum(tok) == IF tok.digits /\ tok.val <= 9999 THEN <<tok.val>> ELSE <<>>
    IN  LabelNumbers[line.label]
        \o Flatten([i \in DOMAIN line.dates |-> DateNumbers(line.dates[i])])
        \o Flatten([i \in DOMAIN line.nums |-> ofNum(line.nums[i])])

\* the (day, month, year) index combinations tried on the first three numbers
date_combos == << <<1, 2, 3>>, <<2, 1, 3>>, <<3, 2, 1>> >>

\* the dates the combinations form: day in 1..31, month in 1..12, year > 100,
\* a year below 1000 taken as 1900 + year, and date() not raising
PossibleDates(numbers) ==
    LET try(combo) ==
            LET day == numbers[combo[1]]
                month == numbers[combo[2]]
                year0 == numbers[combo[3]]
                year == IF year0 < 1000 THEN year0 + 1900 ELSE year0
            IN  IF day \in 1..31 /\ month \in 1..12 /\ year0 > 100 /\ ValidDate(day, month, year)
                THEN {[d |-> day, m |-> month, y |-> year]}
                ELSE {}
    IN  UNION {try(date_combos[i]) : i \in DOMAIN date_combos}

\* one iteration of the second loop of extract_report_date
NumericDateOfLine(line) ==
    LET numbers == NumbersOfLine(line)
        possible == IF Len(numbers) >= 3 THEN PossibleDates(numbers) ELSE {}
    IN  IF possible = {} THEN <<>>
        ELSE <<CHOOSE dt \in possible : \A other \in possible : ~DateLess(dt, other)>>  \* max()

\* extract_report_date without its last step: no date found returns ""
ExtractReportDateNoFallback(lines, t) ==
    LET first == FirstDate([i \in DOMAIN lines |-> DateOfLine(lines[i])])
        second == FirstDate([i \in DOMAIN lines |-> NumericDateOfLine(lines[i])])
    IN  IF first # <<>> THEN StrftimeDMY(first[1])
        ELSE IF second # <<>> THEN StrftimeDMY(second[1])
        ELSE <<>>

\* extract_report_date without its second strategy: three numbers on a line
\* are not read as a date
ExtractReportDateWithoutNumbers(lines, t) ==
    LET first == FirstDate([i \in DOMAIN lines |-> DateOfLine(lines[i])])
    IN  IF first # <<>> THEN StrftimeDMY(first[1])
        ELSE StrftimeDMY(DateOfClock(t))

\* extract_report_date(lines) at clock t
extract_report_date(lines, t) ==
    LET first == FirstDate([i \in DOMAIN lines |-> DateOfLine(lines[i])])
        second == FirstDate([i \in DOMAIN lines |-> NumericDateOfLine(lines[i])])
    IN  IF first # <<>> THEN StrftimeDMY(first[1])
        ELSE IF second # <<>> THEN StrftimeDMY(second[1])
        ELSE StrftimeDMY(DateOfClock(t))

\* ------------------------------------------------------ parse_fuel_line
\* clean_number: every character but digits and the point is removed (the
\* sign with them); nothing left is 0.0
clean_number(tok) == IF tok.digits THEN tok.val ELSE 0

\* skip_keywords of parse_fuel_line
fuel_skip_keywords ==
    {"product", "volume", "amount", "ស្តង់", "បរិមាណ", "តម្លៃ",
     "summary", "total", "pump", "សរុប"}

\* The regex [\d,]+\.?\d* at the head of a date token: its leading number.
LeadNumber(tok) ==
    CASE tok.fmt \in {"mon", "slashY", "slashy", "dashY"} -> tok.d
      [] tok.fmt = "iso" -> tok.y

\* parts, as <<fuel_type, fields>>: fields are the numbers cleaned from
\* parts[1], parts[2], ...; fuel_type is "" with no fields when len(parts) < 2.
\* Method 1/2 split on tabs or runs of spaces; method 3 finds
\* <letters> <number> <number>, method 4 <letters> <number>; method 5 splits on
\* whitespace, so that the label's second word is parts[1].
FuelParts(line) ==
    LET words == LabelWords[line.label]
        alpha == line.label \in AlphaLabels
        cleaned == [i \in DOMAIN line.nums |-> clean_number(line.nums[i])]
        none == <<"", <<>>>>
        \* line.split()
        split(rest) ==
            IF words # <<>>
            THEN <<words[1], [i \in 1..(Len(words) - 1) |-> WordDigits[words[i + 1]]] \o rest>>
            ELSE none
    IN  CASE line.dates # <<>> ->
                 \* a date is never a whole number: method 3 fails; method 4
                 \* takes the letters before the first date that follows letters
                 IF alpha THEN <<line.label, <<LeadNumber(line.dates[1])>>>>
                 ELSE IF line.range /\ Len(line.dates) >= 2
                      THEN <<"to", <<LeadNumber(line.dates[2])>>>>
                      ELSE none     \* one word: len(parts) < 2
          [] line.nums = <<>> -> split(<<>>)
          [] line.delim = "tab" /\ line.label # "" -> <<line.label, cleaned>>
          [] line.delim = "tab" /\ line.label = "" ->
                 IF Len(line.nums) >= 2 THEN <<NumText(line.nums[1]), Tail(cleaned)>> ELSE none
          [] alpha /\ IsPlain(line.nums[1]) ->
                 IF Len(line.nums) >= 2 /\ IsPlain(line.nums[2])
                 THEN <<line.label, <<cleaned[1], cleaned[2]>>>>      \* method 3
                 ELSE <<line.label, <<cleaned[1]>>>>                  \* method 4
          [] line.label # "" -> split(cleaned)                        \* method 5
          [] OTHER ->
                 IF Len(line.nums) >= 2 THEN <<NumText(line.nums[1]), Tail(cleaned)>> ELSE none

\* parse_fuel_line with the volume check "volume < 0" in place of "volume <= 0"
ParseFuelLineKeepingZero(line) ==
    IF IsBlank(line) THEN <<>>
    ELSE IF AnyKeywordIn(fuel_skip_keywords, StrLower[line.label]) THEN <<>>
    ELSE LET parts == FuelParts(line)
             fuel_type == parts[1]
             fields == parts[2]
             volume == fields[1]
             amount == IF Len(fields) >= 2 THEN fields[2] ELSE 0
         IN  IF fields = <<>> THEN <<>>
             ELSE IF volume < 0 THEN <<>>
             ELSE <<[fuel_type |-> fuel_type, volume |-> volume, amount |-> amount,
                     unit_price |-> <<amount, volume>>]>>

\* parse_fuel_line(line): <<entry>>, or <<>> for None
parse_fuel_line(line) ==
    IF IsBlank(line) THEN <<>>
    ELSE IF AnyKeywordIn(fuel_skip_keywords, StrLower[line.label]) THEN <<>>
    ELSE LET parts == FuelParts(line)
             fuel_type == parts[1]
             fields == parts[2]
             volume == fields[1]
             amount == IF Len(fields) >= 2 THEN fields[2] ELSE 0
         IN  IF fields = <<>> THEN <<>>
             ELSE IF volume <= 0 THEN <<>>
             ELSE <<[fuel_type |-> fuel_type, volume |-> volume, amount |-> amount,
                     unit_price |-> <<amount, volume>>]>>

\* ------------------------------------------------- the sections of a report
\* self.pump_pattern.search(line)
IsPumpLine(line) == PumpNumber[line.label] # ""

\* line.strip().lower() == "summary"
IsSummaryWord(line) ==
    StrLower[line.label] = "summary" /\ line.nums = <<>> /\ line.dates = <<>>

\* index of the first line whose flag is TRUE, 0 when there is none (-1 in
\* the code)
FirstIndex(flags) ==
    IF \E i \in DOMAIN flags : flags[i]
    THEN CHOOSE i \in DOMAIN flags : flags[i] /\ \A j \in 1..(i - 1) : ~flags[j]
    ELSE 0

pump_header_keywords == {"product", "volume", "amount"}

RECURSIVE PumpLoop(_, _, _, _, _)
\* the while loop of parse_pump_data from line i on: pumps is the list so
\* far, current the pump being filled (<<>> for None)
PumpLoop(lines, start, i, pumps, current) ==
    LET flush == IF current # <<>> /\ current[1].fuels # <<>> THEN pumps \o current ELSE pumps
    IN  IF i > Len(lines) THEN flush
        ELSE IF IsSummaryWord(lines[i]) /\ i > start + 2 THEN flush
        ELSE IF IsPumpLine(lines[i])
             THEN PumpLoop(lines, start, i + 1, flush,
                           <<[pump_number |-> PumpNumber[lines[i].label], fuels |-> <<>>]>>)
        ELSE IF current # <<>> /\ parse_fuel_line(lines[i]) # <<>>
             THEN PumpLoop(lines, start, i + 1, pumps,
                           <<[current[1] EXCEPT !.fuels = @ \o parse_fuel_line(lines[i])]>>)
        ELSE PumpLoop(lines, start, i + 1, pumps, current)

\* parse_pump_data(lines)
parse_pump_data(lines) ==
    LET start == FirstIndex([i \in DOMAIN lines |-> IsPumpLine(lines[i])])
    IN  IF start = 0 THEN <<>> ELSE PumpLoop(lines, start, start, <<>>, <<>>)

summary_words == {"summary", "សរុប", "សេចក្តីសង្ខេប"}
summary_header_keywords == {"product", "volume", "amount", "ស្តង់", "បរិមាណ", "តម្លៃ"}
summary_stop_keywords == {"total sale", "total sales", "total", "សរុប", "pump", "ស្តង់"}

\* line.strip().lower() in ["summary", ...]
IsSummaryMarker(line) ==
    StrLower[line.label] \in summary_words /\ line.nums = <<>> /\ line.dates = <<>>

\* the line limit of the summary loop: i - summary_start > 30 stops it
SummaryLineLimit == 30
\* the header is looked for in the lines before summary_start + 10
SummaryHeaderWindow == 10

RECURSIVE SummaryLoop(_, _, _, _, _)
\* the parsing loop of parse_summary_data from line i on
SummaryLoop(lines, summary_start, header_line, i, summary) ==
    IF i > Len(lines) THEN summary
    ELSE IF AnyKeywordIn(summary_stop_keywords, StrLower[lines[i].label]) /\ i > header_line + 1
         THEN summary
    ELSE IF i - summary_start > SummaryLineLimit THEN summary
    ELSE IF parse_fuel_line(lines[i]) = <<>> THEN summary
    ELSE SummaryLoop(lines, summary_start, header_line, i + 1,
                     summary \o parse_fuel_line(lines[i]))

\* parse_summary_data(lines)
parse_summary_data(lines) ==
    LET summary_start == FirstIndex([i \in DOMAIN lines |-> IsSummaryMarker(lines[i])])
        isHeader(i) ==
            /\ i > summary_start
            /\ i < summary_start + SummaryHeaderWindow
            /\ AnyKeywordIn(summary_header_keywords, StrLower[lines[i].label])
        found == {i \in DOMAIN lines : isHeader(i)}
        header_line ==
            IF found = {} THEN summary_start
            ELSE CHOOSE i \in found : \A j \in found : i <= j
    IN  IF summary_start = 0 THEN <<>>
        ELSE SummaryLoop(lines, summary_start, header_line, header_line + 1, <<>>)

RECURSIVE AddToTotals(_, _)
\* fuel_totals after one more fuel: an ordered dict, as a sequence of
\* [fuel_type, volume, amount, count] in order of first insertion
AddToTotals(totals, fuel) ==
    IF totals = <<>>
    THEN <<[fuel_type |-> fuel.fuel_type, volume |-> fuel.volume,
            amount |-> fuel.amount, count |-> 1]>>
    ELSE IF totals[1].fuel_type = fuel.fuel_type
         THEN <<[totals[1] EXCEPT !.volume = @ + fuel.volume,
                                  !.amount = @ + fuel.amount,
                                  !.count = @ + 1]>> \o Tail(totals)
         ELSE <<totals[1]>> \o AddToTotals(Tail(totals), fuel)

RECURSIVE TotalsOf(_, _)
TotalsOf(fuels, totals) ==
    IF fuels = <<>> THEN totals ELSE TotalsOf(Tail(fuels), AddToTotals(totals, fuels[1]))

\* extract_fuel_data_from_pumps(pumps_data)
extract_fuel_data_from_pumps(pumps_data) ==
    LET totals == TotalsOf(Flatten([i \in DOMAIN pumps_data |-> pumps_data[i].fuels]), <<>>)
    IN  [i \in DOMAIN totals |->
            [fuel_type |-> totals[i].fuel_type, volume |-> totals[i].volume,
             amount |-> totals[i].amount, pump_count |-> totals[i].count]]

\* extract_fuel_data_from_lines(lines)
extract_fuel_data_from_lines(lines) ==
    LET totals == TotalsOf(Flatten([i \in DOMAIN lines |-> parse_fuel_line(lines[i])]), <<>>)
    IN  [i \in DOMAIN totals |->
            [fuel_type |-> totals[i].fuel_type, volume |-> totals[i].volume,
             amount |-> totals[i].amount]]

\* ------------------------------------------- map_fuel_types_to_standard
\* self.fuel_mappings.get(key): <<value>>, or <<>> for None
MappingGet(key) ==
    LET hits == {i \in DOMAIN DEFAULT_FUEL_MAPPINGS : DEFAULT_FUEL_MAPPINGS[i][1] = key}
    IN  IF hits = {} THEN <<>> ELSE <<DEFAULT_FUEL_MAPPINGS[CHOOSE i \in hits : TRUE][2]>>

RECURSIVE BestPartialMatch(_, _, _, _)
\* the loop over fuel_mappings.items() of the contains step, from entry i on:
\* best is <<value>> or <<>>, replaced only by a strictly longer match
BestPartialMatch(fuel_type, i, best, best_length) ==
    IF i > Len(DEFAULT_FUEL_MAPPINGS) THEN best
    ELSE LET key == DEFAULT_FUEL_MAPPINGS[i][1]
             key_lower == StrLower[key]
             fuel_type_lower == StrLower[fuel_type]
             keyInFuel == key_lower \in SubstringsOf[fuel_type_lower]
             fuelInKey == key_lower \in SuperstringKeys[fuel_type_lower]
             match_length == IF keyInFuel THEN StrLen[key] ELSE StrLen[fuel_type]
         IN  IF (keyInFuel \/ fuelInKey) /\ match_length > best_length
             THEN BestPartialMatch(fuel_type, i + 1, <<DEFAULT_FUEL_MAPPINGS[i][2]>>, match_length)
             ELSE BestPartialMatch(fuel_type, i + 1, best, best_length)

diesel_words == {"diesel", "do", "ម៉ាស៊ូត"}
regular_words == {"regular", "ea92", "សាំង", "gasoline"}
super_words == {"super", "ea95", "premium", "ស៊ុប"}

\* the last step: inferred from common patterns, else the cleaned label
InferFuelType(fuel_type) ==
    LET fuel_type_lower == StrLower[fuel_type]
    IN  IF AnyKeywordIn(diesel_words, fuel_type_lower) THEN "ប្រេងម៉ាស៊ូត DO - T1"
        ELSE IF AnyKeywordIn(regular_words, fuel_type_lower) THEN "សាំង EA92 - T2"
        ELSE IF AnyKeywordIn(super_words, fuel_type_lower) THEN "សាំងស៊ុបពែរ EA95 -T3"
        ELSE CleanFuelType[fuel_type]

\* the mapped_type of one fuel_type: exact, lowercased, contains, inferred
MapFuelType(fuel_type) ==
    LET exact == MappingGet(fuel_type)
        lowered == MappingGet(StrLower[fuel_type])
        partial == BestPartialMatch(fuel_type, 1, <<>>, 0)
    IN  IF exact # <<>> THEN exact[1]
        ELSE IF lowered # <<>> THEN lowered[1]
        ELSE IF partial # <<>> THEN partial[1]
        ELSE InferFuelType(fuel_type)

\* map_fuel_types_to_standard(fuel_data): one mapped item per item, in order;
\* the other fields of the item are copied
map_fuel_types_to_standard(fuel_data) ==
    [i \in DOMAIN fuel_data |->
        Put(Put(fuel_data[i], "fuel_type", MapFuelType(fuel_data[i].fuel_type)),
            "original_fuel_type", fuel_data[i].fuel_type)]

\* ------------------------------------------------------------ the totals
total_keywords == {"total sale", "total sales", "total", "សរុប", "grand total"}

\* self.number_pattern.findall(text) on a date token
DateDigitRuns(tok) ==
    CASE tok.fmt = "mon" -> <<tok.d, tok.y>>
      [] tok.fmt = "iso" -> <<tok.y, tok.m, tok.d>>
      [] tok.fmt \in {"slashY", "slashy", "dashY"} -> <<tok.d, tok.m, tok.y>>

\* self.number_pattern.findall(line), as numbers
DigitRunsOfLine(line) ==
    LET ofNum(tok) == IF tok.digits THEN <<tok.val>> ELSE <<>>
    IN  LabelDigitRuns[line.label]
        \o Flatten([i \in DOMAIN line.dates |-> DateDigitRuns(line.dates[i])])
        \o Flatten([i \in DOMAIN line.nums |-> ofNum(line.nums[i])])

\* float(text) of a numeric field that has digits
FloatOf(tok) == IF tok.neg THEN -tok.val ELSE tok.val

RECURSIVE TotalLoop(_, _)
\* the loop of extract_total_sales over the lines; total_sales is the dict so
\* far.  A line naming a total with two numbers returns them.  With fewer, the
\* line split on tabs is tried: parts[1] is stored before parts[2] is
\* converted, and stays stored when that raises ValueError.
TotalLoop(lines, total_sales) ==
    IF lines = <<>> THEN total_sales
    ELSE LET line == lines[1]
             numbers == DigitRunsOfLine(line)
             parts == IF line.delim = "tab" /\ line.label # "" THEN line.nums
                      ELSE IF line.delim = "tab" THEN Tail(line.nums)
                      ELSE <<>>
         IN  IF ~AnyKeywordIn(total_keywords, StrLower[line.label])
             THEN TotalLoop(Tail(lines), total_sales)
             ELSE IF Len(numbers) >= 2
                  THEN [volume |-> numbers[1], amount |-> numbers[2]]
             ELSE IF Len(parts) >= 2 /\ parts[1].digits
                  THEN TotalLoop(Tail(lines), [total_sales EXCEPT !.volume = FloatOf(parts[1])])
             ELSE TotalLoop(Tail(lines), total_sales)

\* extract_total_sales(lines)
extract_total_sales(lines) == TotalLoop(lines, [volume |-> 0, amount |-> 0])

\* calculate_totals_from_fuel_data(fuel_data)
calculate_totals_from_fuel_data(fuel_data) ==
    [volume |-> SumOver(fuel_data, "volume"), amount |-> SumOver(fuel_data, "amount")]

\* the tolerance above which verify_totals_consistency replaces the totals, in percent
SignificantMismatchPct == 5
\* the tolerance of verify_totals_consistency's warning, in percent
MismatchTolerancePct == 1
\* the tolerance of the validator's totals check, in percent
ValidationTolerancePct == 5

\* diff / base * 100 > pct, for base > 0
PctAbove(diff, base, pct) == diff * 100 > pct * base

\* verify_totals_consistency replacing the totals above the warning's
\* tolerance already
VerifyTotalsReplacingEarly(fuel_data, extracted_total) ==
    LET calculated_total == calculate_totals_from_fuel_data(fuel_data)
        volume_diff == Abs(calculated_total.volume - extracted_total.volume)
        amount_diff == Abs(calculated_total.amount - extracted_total.amount)
        volumeAbove(pct) == PctAbove(volume_diff, extracted_total.volume, pct)
        amountAbove(pct) ==
            IF extracted_total.amount > 0
            THEN PctAbove(amount_diff, extracted_total.amount, pct)
            ELSE 100 > pct
    IN  IF fuel_data = <<>> THEN extracted_total
        ELSE IF /\ extracted_total.volume > 0
                /\ calculated_total.volume > 0
                /\ (volumeAbove(MismatchTolerancePct) \/ amountAbove(MismatchTolerancePct))
             THEN calculated_total
             ELSE extracted_total

\* verify_totals_consistency(result): the total_sales it leaves in result
verify_totals_consistency(fuel_data, extracted_total) ==
    LET calculated_total == calculate_totals_from_fuel_data(fuel_data)
        volume_diff == Abs(calculated_total.volume - extracted_total.volume)
        amount_diff == Abs(calculated_total.amount - extracted_total.amount)
        volumeAbove(pct) == PctAbove(volume_diff, extracted_total.volume, pct)
        amountAbove(pct) ==
            IF extracted_total.amount > 0
            THEN PctAbove(amount_diff, extracted_total.amount, pct)
            ELSE 100 > pct
    IN  IF fuel_data = <<>> THEN extracted_total
        ELSE IF /\ extracted_total.volume > 0
                /\ calculated_total.volume > 0
                /\ (volumeAbove(MismatchTolerancePct) \/ amountAbove(MismatchTolerancePct))
                /\ (volumeAbove(SignificantMismatchPct) \/ amountAbove(SignificantMismatchPct))
             THEN calculated_total
             ELSE extracted_total

\* ------------------------------------------------- validate_parsed_data
\* datetime.strptime(text, "%d/%m/%y") does not raise: one or two digits of
\* day, of month, two of year, two slashes, and a date of the calendar
StrptimeDMYOk(text) ==
    \E i \in 2..3 : \E j \in (i + 2)..(i + 3) :
        /\ Len(text) = j + 2
        /\ text[i] = "/" /\ text[j] = "/"
        /\ \A k \in (1..Len(text)) \ {i, j} : text[k] \in DigitChars
        /\ LET num(from, to) ==
                   IF from = to THEN DigitValue(text[from])
                   ELSE 10 * DigitValue(text[from]) + DigitValue(text[to])
           IN  ValidDate(num(1, i - 1), num(i + 1, j - 1), CenturyOf(num(j + 1, j + 2)))

required_fields == <<"station_name", "report_date", "fuel_data">>

\* validate_parsed_data with check 4 counted as passed also when it warns
ValidateCountingEmptyFuel(parsed_data) ==
    LET fuel_data == Get(parsed_data, "fuel_data", <<>>)
        total_sales == Get(parsed_data, "total_sales", [volume |-> 0, amount |-> 0])
        missing == {i \in DOMAIN required_fields : required_fields[i] \notin DOMAIN parsed_data}
        stationDefault == Get(parsed_data, "station_name", "") \in {"", "UNKNOWN"}
        dateOk == StrptimeDMYOk(Get(parsed_data, "report_date", <<>>))
        has_negative == \E i \in DOMAIN fuel_data :
                            fuel_data[i].volume < 0 \/ fuel_data[i].amount < 0
        fuel_total == SumOver(fuel_data, "volume")
        mismatch ==
            /\ total_sales.volume > 0
            /\ fuel_data # <<>>
            /\ fuel_total > 0
            /\ PctAbove(Abs(fuel_total - total_sales.volume), total_sales.volume,
                        ValidationTolerancePct)
        errors == [i \in 1..Cardinality(missing) |-> "Missing required field"]
        warnings ==
            (IF stationDefault THEN <<"Station name is missing or default">> ELSE <<>>)
            \o (IF dateOk THEN <<>> ELSE <<"Invalid date format">>)
            \o (IF fuel_data = <<>> THEN <<"No fuel data parsed">> ELSE <<>>)
            \o (IF fuel_data # <<>> /\ has_negative
                THEN <<"Negative values found in fuel data">> ELSE <<>>)
            \o (IF mismatch THEN <<"Volume mismatch">> ELSE <<>>)
        checks_total == Len(required_fields) + 1 + 1 + 1 + (IF fuel_data # <<>> THEN 1 ELSE 0) + 1
        checks_passed ==
            (Len(required_fields) - Cardinality(missing))
            + (IF stationDefault THEN 0 ELSE 1)
            + (IF dateOk THEN 1 ELSE 0)
            + 1
            + (IF fuel_data # <<>> /\ ~has_negative THEN 1 ELSE 0)
            + (IF mismatch THEN 0 ELSE 1)
    IN  [is_valid |-> missing = {},
         errors |-> errors,
         warnings |-> warnings,
         checks_passed |-> checks_passed,
         checks_total |-> checks_total,
         score |-> [num |-> checks_passed * 100, den |-> checks_total]]

\* validate_parsed_data(parsed_data); score is checks_passed / checks_total
\* * 100 as the fraction [num, den]
validate_parsed_data(parsed_data) ==
    LET fuel_data == Get(parsed_data, "fuel_data", <<>>)
        total_sales == Get(parsed_data, "total_sales", [volume |-> 0, amount |-> 0])
        missing == {i \in DOMAIN required_fields : required_fields[i] \notin DOMAIN parsed_data}
        stationDefault == Get(parsed_data, "station_name", "") \in {"", "UNKNOWN"}
        dateOk == StrptimeDMYOk(Get(parsed_data, "report_date", <<>>))
        has_negative == \E i \in DOMAIN fuel_data :
                            fuel_data[i].volume < 0 \/ fuel_data[i].amount < 0
        fuel_total == SumOver(fuel_data, "volume")
        mismatch ==
            /\ total_sales.volume > 0
            /\ fuel_data # <<>>
            /\ fuel_total > 0
            /\ PctAbove(Abs(fuel_total - total_sales.volume), total_sales.volume,
                        ValidationTolerancePct)
        errors == [i \in 1..Cardinality(missing) |-> "Missing required field"]
        warnings ==
            (IF stationDefault THEN <<"Station name is missing or default">> ELSE <<>>)
            \o (IF dateOk THEN <<>> ELSE <<"Invalid date format">>)
            \o (IF fuel_data = <<>> THEN <<"No fuel data parsed">> ELSE <<>>)
            \o (IF fuel_data # <<>> /\ has_negative
                THEN <<"Negative values found in fuel data">> ELSE <<>>)
            \o (IF mismatch THEN <<"Volume mismatch">> ELSE <<>>)
        checks_total == Len(required_fields) + 1 + 1 + 1 + (IF fuel_data # <<>> THEN 1 ELSE 0) + 1
        checks_passed ==
            (Len(required_fields) - Cardinality(missing))
            + (IF stationDefault THEN 0 ELSE 1)
            + (IF dateOk THEN 1 ELSE 0)
            + (IF fuel_data = <<>> THEN 0 ELSE 1)
            + (IF fuel_data # <<>> /\ ~has_negative THEN 1 ELSE 0)
            + (IF mismatch THEN 0 ELSE 1)
    IN  [is_valid |-> missing = {},
         errors |-> errors,
         warnings |-> warnings,
         checks_passed |-> checks_passed,
         checks_total |-> checks_total,
         score |-> [num |-> checks_passed * 100, den |-> checks_total]]

\* ------------------------------------------------- extract_station_name
Pad2(n) == IF n < 10 THEN "0" \o ToString(n) ELSE ToString(n)

\* the text of a date token
DateText(tok) ==
    CASE tok.fmt = "mon" -> Pad2(tok.d) \o "-" \o tok.mon \o "-" \o ToString(tok.y)
      [] tok.fmt = "slashY" -> Pad2(tok.d) \o "/" \o Pad2(tok.m) \o "/" \o ToString(tok.y)
      [] tok.fmt = "slashy" -> Pad2(tok.d) \o "/" \o Pad2(tok.m) \o "/" \o Pad2(tok.y)
      [] tok.fmt = "iso" -> ToString(tok.y) \o "-" \o Pad2(tok.m) \o "-" \o Pad2(tok.d)
      [] tok.fmt = "dashY" -> Pad2(tok.d) \o "-" \o Pad2(tok.m) \o "-" \o ToString(tok.y)
      [] tok.fmt = "dotY" -> Pad2(tok.d) \o "." \o Pad2(tok.m) \o "." \o ToString(tok.y)

RECURSIVE JoinWith(_, _)
\* sep.join(texts)
JoinWith(texts, sep) ==
    IF texts = <<>> THEN ""
    ELSE IF Len(texts) = 1 THEN texts[1]
    ELSE texts[1] \o sep \o JoinWith(Tail(texts), sep)

\* the fields of a line as text, whitespace runs collapsed to one space
\* (re.sub(r'\s+', ' ', ...)); stripLead drops a leading "-", stripTrail a
\* trailing one (the punctuation re.sub at the ends of the station line)
FieldsText(line, stripLead, stripTrail) ==
    LET n == Len(line.nums)
        text(i) ==
            IF i = 1 /\ stripLead /\ line.nums[i].neg
            THEN (IF line.nums[i].digits THEN ToString(line.nums[i].val) ELSE "")
            ELSE IF i = n /\ stripTrail /\ ~line.nums[i].digits THEN ""
            ELSE NumText(line.nums[i])
    IN  IF line.dates # <<>>
        THEN JoinWith([i \in DOMAIN line.dates |-> DateText(line.dates[i])],
                      IF line.range THEN " to " ELSE " ")
        ELSE JoinWith([i \in 1..n |-> text(i)], " ")

\* extract_station_name without its last resort: an empty name is returned
ExtractStationNameOrEmpty(first_line) ==
    LET hasFields == first_line.nums # <<>> \/ first_line.dates # <<>>
        labelPart == LabelSansPrefix[first_line.label][IF hasFields THEN 2 ELSE 1]
        join(a, b) == IF a = "" THEN b ELSE IF b = "" THEN a ELSE a \o " " \o b
    IN  IF hasFields
        THEN join(labelPart, FieldsText(first_line, labelPart = "", TRUE))
        ELSE StripPunctuation[labelPart]

\* extract_station_name(first_line): the prefixes are removed from the label,
\* punctuation from both ends; an empty name gives the line itself back
extract_station_name(first_line) ==
    LET hasFields == first_line.nums # <<>> \/ first_line.dates # <<>>
        labelPart == LabelSansPrefix[first_line.label][IF hasFields THEN 2 ELSE 1]
        join(a, b) == IF a = "" THEN b ELSE IF b = "" THEN a ELSE a \o " " \o b
        station_line ==
            IF hasFields
            THEN join(labelPart, FieldsText(first_line, labelPart = "", TRUE))
            ELSE StripPunctuation[labelPart]
    IN  IF station_line = "" \/ station_line = " "
        THEN join(first_line.label, FieldsText(first_line, FALSE, FALSE))
        ELSE station_line

\* --------------------------------------------------- parse_daily_report
\* _create_error_result(error_message) at clock t
create_error_result(error_message, t) ==
    [station_name |-> "UNKNOWN",
     report_date |-> StrftimeDMY(DateOfClock(t)),
     pump_data |-> <<>>,
     summary_data |-> <<>>,
     fuel_data |-> <<>>,
     total_sales |-> [volume |-> 0, amount |-> 0],
     metadata |-> [parsed_at |-> t, error |-> error_message, is_valid |-> FALSE]]

\* lines = [line.strip() for line in report_text.split('\n') if line.strip()]
StripLines(raw) == SelectSeq(raw, LAMBDA line : ~IsBlank(line))

\* SelectFuelData with the two first branches exchanged: the pumps before
\* the summary
SelectFuelDataPumpsFirst(summary_data, pumps_data, lines) ==
    IF pumps_data # <<>>
    THEN [fuel_data |-> extract_fuel_data_from_pumps(pumps_data),
          log |-> "Using fuel data aggregated from pumps"]
    ELSE IF summary_data # <<>>
    THEN [fuel_data |-> summary_data,
          log |-> "Using fuel data from summary section"]
    ELSE [fuel_data |-> extract_fuel_data_from_lines(lines),
          log |-> "Using fuel data extracted directly from lines"]

\* step 5 of parse_daily_report: the fuel data and the log line naming its source
SelectFuelData(summary_data, pumps_data, lines) ==
    IF summary_data # <<>>
    THEN [fuel_data |-> summary_data,
          log |-> "Using fuel data from summary section"]
    ELSE IF pumps_data # <<>>
    THEN [fuel_data |-> extract_fuel_data_from_pumps(pumps_data),
          log |-> "Using fuel data aggregated from pumps"]
    ELSE [fuel_data |-> extract_fuel_data_from_lines(lines),
          log |-> "Using fuel data extracted directly from lines"]

\* ReconcileTotals without its first branch: totals that were not extracted
\* are left at zero
ReconcileTotalsWithoutSum(fuel_data, total_sales) ==
    IF total_sales.volume > 0 /\ fuel_data # <<>>
    THEN verify_totals_consistency(fuel_data, total_sales)
    ELSE total_sales

\* step 8 of parse_daily_report: the total_sales of the result
ReconcileTotals(fuel_data, total_sales) ==
    IF total_sales.volume = 0 /\ fuel_data # <<>>
    THEN calculate_totals_from_fuel_data(fuel_data)
    ELSE IF total_sales.volume > 0 /\ fuel_data # <<>>
    THEN verify_totals_consistency(fuel_data, total_sales)
    ELSE total_sales

\* Unvalidated taking the station from the first of the five leading lines
\* that begins with a station prefix
UnvalidatedStationOfFive(lines, t, summary_data, pumps_data, fuel_data) ==
    LET prefixed == {i \in DOMAIN lines :
                        i <= 5 /\ LabelSansPrefix[lines[i].label][1] # lines[i].label}
        station_line == IF prefixed = {} THEN 1
                        ELSE CHOOSE i \in prefixed : \A j \in prefixed : i <= j
    IN  [station_name |-> extract_station_name(lines[station_line]),
         report_date |-> extract_report_date(lines, t),
         pump_data |-> pumps_data,
         summary_data |-> summary_data,
         fuel_data |-> fuel_data,
         total_sales |-> ReconcileTotals(fuel_data, extract_total_sales(lines)),
         metadata |-> [parsed_at |-> t,
                       lines_processed |-> Len(lines),
                       has_summary |-> summary_data # <<>>,
                       has_pump_data |-> pumps_data # <<>>]]

\* steps 1, 2, 6, 8 and the metadata of parse_daily_report: the result
\* before its validation
Unvalidated(lines, t, summary_data, pumps_data, fuel_data) ==
    [station_name |-> extract_station_name(lines[1]),
     report_date |-> extract_report_date(lines, t),
     pump_data |-> pumps_data,
     summary_data |-> summary_data,
     fuel_data |-> fuel_data,
     total_sales |-> ReconcileTotals(fuel_data, extract_total_sales(lines)),
     metadata |-> [parsed_at |-> t,
                   lines_processed |-> Len(lines),
                   has_summary |-> summary_data # <<>>,
                   has_pump_data |-> pumps_data # <<>>]]

\* step 9: result['metadata']['validation'] = validate_parsed_data(result)
WithValidation(unvalidated) ==
    [unvalidated EXCEPT !.metadata =
        Put(@, "validation", validate_parsed_data(unvalidated))]

\* step 7: if fuel_data: fuel_data = map_fuel_types_to_standard(fuel_data)
MapSelected(fuel_data) ==
    IF fuel_data # <<>> THEN map_fuel_types_to_standard(fuel_data) ELSE fuel_data

\* steps 5 to 9 once the sections are parsed and the fuel data selected
ParseSelected(lines, t, summary_data, pumps_data, selected) ==
    [result |-> WithValidation(Unvalidated(lines, t, summary_data, pumps_data,
                                           MapSelected(selected.fuel_data))),
     log |-> selected.log]

\* steps 5 to 9 once the sections are parsed
ParseSections(lines, t, summary_data, pumps_data) ==
    ParseSelected(lines, t, summary_data, pumps_data,
                  SelectFuelData(summary_data, pumps_data, lines))

\* the body of the try block on the lines of a text, at clock t:
\* [result, log]
ParseLines(lines, t) ==
    ParseSections(lines, t, parse_summary_data(lines), parse_pump_data(lines))

\* lines is empty: return self._create_error_result("Empty report text")
ParseStripped(lines, t) ==
    IF lines = <<>>
    THEN [exception |-> "",
          result |-> create_error_result("Empty report text", t), log |-> ""]
    ELSE Put(ParseLines(lines, t), "exception", "")

\* the try block of parse_daily_report: exception names what it raises ("" when
\* it returns).  A message that is no text raises at report_text.split.
TryParse(text, t) ==
    IF ~text.is_text
    THEN [exception |-> "AttributeError", result |-> <<>>, log |-> ""]
    ELSE ParseStripped(StripLines(text.lines), t)

\* CatchException without the except clause: what the try block raises
\* leaves parse_daily_report
PropagateException(attempt, t) ==
    IF attempt.exception # ""
    THEN [result |-> <<>>, log |-> "", raised |-> TRUE]
    ELSE [result |-> attempt.result, log |-> attempt.log, raised |-> FALSE]

\* except Exception as e: return self._create_error_result(str(e))
CatchException(attempt, t) ==
    IF attempt.exception # ""
    THEN [result |-> create_error_result(attempt.exception, t),
          log |-> "", raised |-> FALSE]
    ELSE [result |-> attempt.result, log |-> attempt.log, raised |-> FALSE]

\* parse_daily_report(report_text) at clock t: [result, log, raised]
parse_daily_report(text, t) == CatchException(TryParse(text, t), t)

\* --------------------------------------------------- format_for_database
ZeroScore == [num |-> 0, den |-> 1]

\* the first step of format_for_database: parsed_data with its totals
\* calculated when they are zero (the caller's dict is updated in place)
WithTotals(parsed_data) ==
    LET fuel_data == Get(parsed_data, "fuel_data", <<>>)
        stated == Get(parsed_data, "total_sales", [volume |-> 0, amount |-> 0])
    IN  IF stated.volume = 0 /\ fuel_data # <<>>
        THEN Put(parsed_data, "total_sales", calculate_totals_from_fuel_data(fuel_data))
        ELSE parsed_data

\* an absent or empty "validation" is computed now
ValidationOf(metadata, withTotals) ==
    IF "validation" \in DOMAIN metadata
    THEN metadata.validation
    ELSE validate_parsed_data(withTotals)

\* db_data['summary'] fields, present when there is fuel data
SummaryOf(fuel_data, total_sales) ==
    IF fuel_data # <<>>
    THEN [fuel_types_count |-> Len(fuel_data),
          average_unit_price |->
              IF total_sales.volume > 0
              THEN <<total_sales.amount, total_sales.volume>> ELSE <<0, 1>>]
    ELSE <<>>

\* the db_data dict of format_for_database
DbData(parsed_data, t, fuel_data, total_sales, metadata, validation_result) ==
  Update(
    [station_name |-> Get(parsed_data, "station_name", "UNKNOWN"),
     report_date |-> Get(parsed_data, "report_date", StrftimeDMY(DateOfClock(t))),
     fuel_data |-> fuel_data,
     total_volume |-> total_sales.volume,
     total_amount |-> total_sales.amount,
     pump_count |-> Len(Get(parsed_data, "pump_data", <<>>)),
     parsed_at |-> t,
     validation_score |-> Get(validation_result, "score", ZeroScore),
     is_valid |-> Get(validation_result, "is_valid", FALSE),
     validation_warnings |-> Get(validation_result, "warnings", <<>>),
     metadata |-> metadata],
    SummaryOf(fuel_data, total_sales))

\* format_for_database on parsed_data with its totals calculated
FormatWithTotals(withTotals, t) ==
    DbData(withTotals, t,
           Get(withTotals, "fuel_data", <<>>),
           Get(withTotals, "total_sales", [volume |-> 0, amount |-> 0]),
           Get(withTotals, "metadata", <<>>),
           ValidationOf(Get(withTotals, "metadata", <<>>), withTotals))

\* format_for_database(parsed_data) at clock t
format_for_database(parsed_data, t) == FormatWithTotals(WithTotals(parsed_data), t)

\* ------------------------------------------- one parser, concurrent calls
\* ReportParser(): the object after __init__ with no config.  Its compiled
\* patterns and station prefixes are the tables of the label operations
\* above; fuel_mappings is the dictionary the mapping step reads.
ReportParser == [config |-> <<>>, fuel_mappings |-> DEFAULT_FUEL_MAPPINGS]

\* the concurrent calls
CallIds == 1..MaxCalls

\* a call that has not begun
IdleCall == [pc |-> "idle"]

\* the texts of the concurrent calls: one fuel line of every label, a report
\* with a summary, one with a pump, an empty one and a message that is no text
ConcurrentReports ==
    {Text(<<Line(l, "tab", <<Num(5), Num(10)>>)>>) : l \in RawLabels}
    \cup { Text(<<Words("Summary"), Line("DO", "sp", <<Num(7), Num(3)>>)>>),
           Text(<<Words("Pump 1"), Line("Diesel", "tab", <<Num(5), Num(10)>>),
                  Line("DO", "sp", <<Num(7), Num(3)>>)>>),
           Text(<<>>),
           NonText }

\* fuel_mappings.get(key) on the dictionary of the parser: <<value>>, or <<>>
MappingGetIn(fuel_mappings, key) ==
    LET hits == {i \in DOMAIN fuel_mappings : fuel_mappings[i][1] = key}
    IN  IF hits = {} THEN <<>> ELSE <<fuel_mappings[CHOOSE i \in hits : TRUE][2]>>

RECURSIVE BestPartialMatchIn(_, _, _, _, _)
\* the loop over self.fuel_mappings.items() of the contains step
BestPartialMatchIn(fuel_mappings, fuel_type, i, best, best_length) ==
    IF i > Len(fuel_mappings) THEN best
    ELSE LET key == fuel_mappings[i][1]
             key_lower == StrLower[key]
             fuel_type_lower == StrLower[fuel_type]
             keyInFuel == key_lower \in SubstringsOf[fuel_type_lower]
             fuelInKey == key_lower \in SuperstringKeys[fuel_type_lower]
             match_length == IF keyInFuel THEN StrLen[key] ELSE StrLen[fuel_type]
         IN  IF (keyInFuel \/ fuelInKey) /\ match_length > best_length
             THEN BestPartialMatchIn(fuel_mappings, fuel_type, i + 1,
                                     <<fuel_mappings[i][2]>>, match_length)
             ELSE BestPartialMatchIn(fuel_mappings, fuel_type, i + 1, best, best_length)

\* the mapped_type of one fuel_type under the dictionary of the parser
MapFuelTypeIn(fuel_mappings, fuel_type) ==
    LET exact == MappingGetIn(fuel_mappings, fuel_type)
        lowered == MappingGetIn(fuel_mappings, StrLower[fuel_type])
        partial == BestPartialMatchIn(fuel_mappings, fuel_type, 1, <<>>, 0)
    IN  IF exact # <<>> THEN exact[1]
        ELSE IF lowered # <<>> THEN lowered[1]
        ELSE IF partial # <<>> THEN partial[1]
        ELSE InferFuelType(fuel_type)

\* self.fuel_mappings[key] = value
MappingSet(fuel_mappings, key, value) ==
    IF \E i \in DOMAIN fuel_mappings : fuel_mappings[i][1] = key
    THEN [i \in DOMAIN fuel_mappings |->
             IF fuel_mappings[i][1] = key THEN <<key, value>> ELSE fuel_mappings[i]]
    ELSE Append(fuel_mappings, <<key, value>>)

RECURSIVE LearnMappings(_, _)
\* every label of fuel_data stored in the dictionary: its lowercase form is
\* made a key of the label as written
LearnMappings(fuel_mappings, fuel_data) ==
    IF fuel_data = <<>> THEN fuel_mappings
    ELSE LearnMappings(
             MappingSet(fuel_mappings, StrLower[fuel_data[1].fuel_type],
                        fuel_data[1].fuel_type),
             Tail(fuel_data))

\* the mapping step keeping what it maps in self.fuel_mappings
MapOnParserLearning(p, fuel_data) ==
    [parser |-> [p EXCEPT !.fuel_mappings = LearnMappings(@, fuel_data)],
     fuel_data |->
        [i \in DOMAIN fuel_data |->
            Put(Put(fuel_data[i], "fuel_type",
                    MapFuelTypeIn(p.fuel_mappings, fuel_data[i].fuel_type)),
                "original_fuel_type", fuel_data[i].fuel_type)]]

\* step 7 on the parser p: self.map_fuel_types_to_standard(fuel_data) reads
\* self.fuel_mappings and assigns nothing to self: [parser, fuel_data]
MapOnParser(p, fuel_data) ==
    [parser |-> p,
     fuel_data |->
        [i \in DOMAIN fuel_data |->
            Put(Put(fuel_data[i], "fuel_type",
                    MapFuelTypeIn(p.fuel_mappings, fuel_data[i].fuel_type)),
                "original_fuel_type", fuel_data[i].fuel_type)]]

\* ------------------------------------------- datetime.strptime on texts
\* A date text is the sequence of its characters, as StrftimeDMY writes it.
\* A format is [sep, codes]: the directives d, m, y (two digits) and Y (four
\* digits) in the order of the format, separated by sep; sep "" is "%Y%m%d".

RECURSIVE SplitAt(_, _, _)
\* text.split(sep): cur holds the field being read
SplitAt(chars, sep, cur) ==
    IF chars = <<>> THEN <<cur>>
    ELSE IF chars[1] = sep THEN <<cur>> \o SplitAt(Tail(chars), sep, <<>>)
    ELSE SplitAt(Tail(chars), sep, Append(cur, chars[1]))

AllDigits(field) == \A i \in DOMAIN field : field[i] \in DigitChars

RECURSIVE DigitsValue(_)
\* int(field) of a run of digits
DigitsValue(field) ==
    IF field = <<>> THEN 0
    ELSE 10 * DigitsValue(SubSeq(field, 1, Len(field) - 1)) + DigitValue(field[Len(field)])

Uppers == <<"A", "B", "C", "D", "E", "F", "G", "H", "I", "J", "K", "L", "M",
            "N", "O", "P", "Q", "R", "S", "T", "U", "V", "W", "X", "Y", "Z">>
Lowers == <<"a", "b", "c", "d", "e", "f", "g", "h", "i", "j", "k", "l", "m",
            "n", "o", "p", "q", "r", "s", "t", "u", "v", "w", "x", "y", "z">>

\* str.lower() of one character
LowerChar(c) ==
    IF \E i \in 1..26 : Uppers[i] = c THEN Lowers[CHOOSE i \in 1..26 : Uppers[i] = c] ELSE c

\* the month abbreviations of %b, lowercased, as characters
MonthAbbrs ==
    << <<"j", "a", "n">>, <<"f", "e", "b">>, <<"m", "a", "r">>, <<"a", "p", "r">>,
       <<"m", "a", "y">>, <<"j", "u", "n">>, <<"j", "u", "l">>, <<"a", "u", "g">>,
       <<"s", "e", "p">>, <<"o", "c", "t">>, <<"n", "o", "v">>, <<"d", "e", "c">> >>

\* the month a field names under %b, which ignores letter case; 0 when none
MonthOfName(field) ==
    LET lower == [i \in DOMAIN field |-> LowerChar(field[i])]
    IN  IF \E m \in 1..12 : MonthAbbrs[m] = lower
        THEN CHOOSE m \in 1..12 : MonthAbbrs[m] = lower ELSE 0

\* the regular expression of one directive matches the whole field:
\* %d is 1..31 and %m is 1..12 in one or two digits, %y is two digits,
\* %Y is four digits, %b is a month abbreviation
DirectiveMatches(code, field) ==
    CASE code = "d" -> AllDigits(field) /\ Len(field) \in 1..2 /\ DigitsValue(field) \in 1..31
      [] code = "m" -> AllDigits(field) /\ Len(field) \in 1..2 /\ DigitsValue(field) \in 1..12
      [] code = "y" -> AllDigits(field) /\ Len(field) = 2
      [] code = "Y" -> AllDigits(field) /\ Len(field) = 4
      [] code = "b" -> MonthOfName(field) # 0

\* the ways "%Y%m%d" can cut a text of digits, in the order the regular
\* expression tries them: two digits before one, the month before the day
CompactCuts(chars) ==
    LET cut(mlen, dlen) ==
            <<SubSeq(chars, 1, 4), SubSeq(chars, 5, 4 + mlen),
              SubSeq(chars, 5 + mlen, Len(chars))>>
        fits(mlen, dlen) ==
            /\ Len(chars) = 4 + mlen + dlen
            /\ DirectiveMatches("m", cut(mlen, dlen)[2])
            /\ DirectiveMatches("d", cut(mlen, dlen)[3])
        lens == << <<2, 2>>, <<2, 1>>, <<1, 2>>, <<1, 1>> >>
        good == SelectSeq(lens, LAMBDA l : fits(l[1], l[2]))
    IN  IF good = <<>> THEN <<>> ELSE cut(good[1][1], good[1][2])

\* the fields of the text under the format, <<>> when the text does not match
FieldsUnder(fmt, chars) ==
    IF fmt.sep = "" THEN (IF AllDigits(chars) THEN CompactCuts(chars) ELSE <<>>)
    ELSE SplitAt(chars, fmt.sep, <<>>)

\* the year a matched year field stands for
YearOf(code, field) ==
    IF code = "y" THEN CenturyOf(DigitsValue(field)) ELSE DigitsValue(field)

\* the date of three matched fields, <<>> when date() raises ValueError
DateOfFields(fmt, fields) ==
    LET at(code) == fields[CHOOSE i \in 1..3 : fmt.codes[i] = code]
        yc == IF \E i \in 1..3 : fmt.codes[i] = "y" THEN "y" ELSE "Y"
        d == DigitsValue(at("d"))
        m == IF \E i \in 1..3 : fmt.codes[i] = "b"
             THEN MonthOfName(at("b")) ELSE DigitsValue(at("m"))
        y == YearOf(yc, at(yc))
    IN  IF ValidDate(d, m, y) THEN <<[d |-> d, m |-> m, y |-> y]>> ELSE <<>>

\* datetime.strptime(text, fmt).date(): <<date>>, or <<>> on ValueError
Strptime(fmt, chars) ==
    LET fields == FieldsUnder(fmt, chars)
    IN  IF /\ Len(fields) = 3
           /\ \A i \in 1..3 : DirectiveMatches(fmt.codes[i], fields[i])
        THEN DateOfFields(fmt, fields)
        ELSE <<>>

RECURSIVE FirstParsed(_, _)
\* the loop "for fmt in formats: try strptime ... except ValueError: continue":
\* the date under the first format that parses the text, <<>> when none does
FirstParsed(formats, chars) ==
    IF formats = <<>> THEN <<>>
    ELSE IF Strptime(formats[1], chars) # <<>> THEN Strptime(formats[1], chars)
    ELSE FirstParsed(Tail(formats), chars)

RECURSIVE DigitRuns(_, _)
\* re.findall(r'\d+', text): cur holds the run being read
DigitRuns(chars, cur) ==
    IF chars = <<>> THEN (IF cur = <<>> THEN <<>> ELSE <<cur>>)
    ELSE IF chars[1] \in DigitChars THEN DigitRuns(Tail(chars), Append(cur, chars[1]))
    ELSE (IF cur = <<>> THEN <<>> ELSE <<cur>>) \o DigitRuns(Tail(chars), <<>>)

\* strftime("%Y-%m-%d"), the output_format of database.parse_date_string
StrftimeISO(dt) ==
    TwoDigits(dt.y \div 100) \o TwoDigits(dt.y % 100) \o <<"-">>
    \o TwoDigits(dt.m) \o <<"-">> \o TwoDigits(dt.d)

\* ------------------------------------------------------- database.py
Format(sep, codes) == [sep |-> sep, codes |-> codes]

\* date_formats of database.parse_date_string, in order
date_formats ==
    << Format("/", <<"Y", "m", "d">>), Format("/", <<"d", "m", "Y">>),
       Format("/", <<"d", "m", "y">>), Format("-", <<"Y", "m", "d">>),
       Format("-", <<"d", "m", "Y">>), Format("-", <<"d", "m", "y">>),
       Format(".", <<"d", "m", "Y">>), Format(".", <<"d", "m", "y">>),
       Format(".", <<"Y", "m", "d">>), Format("/", <<"m", "d", "Y">>),
       Format("-", <<"m", "d", "Y">>) >>

\* the orderings (y, m, d) of the first three numbers tried after the formats
number_orders == << <<3, 2, 1>>, <<1, 2, 3>>, <<3, 1, 2>> >>

\* "if y < 100: y += 2000 elif y < 1000: y += 1900"
NormalizedYear(y) == IF y < 100 THEN y + 2000 ELSE IF y < 1000 THEN y + 1900 ELSE y

\* the date of the numbers under one ordering, <<>> when it is rejected
DateInOrder(numbers, order) ==
    LET y == NormalizedYear(DigitsValue(numbers[order[1]]))
        m == DigitsValue(numbers[order[2]])
        d == DigitsValue(numbers[order[3]])
    IN  IF m \in 1..12 /\ d \in 1..31 /\ ValidDate(d, m, y)
        THEN <<[d |-> d, m |-> m, y |-> y]>> ELSE <<>>

\* the numbers fallback of parse_date_string
DateOfNumbers(numbers) ==
    LET good == SelectSeq(number_orders, LAMBDA o : DateInOrder(numbers, o) # <<>>)
    IN  IF Len(numbers) >= 3 /\ good # <<>> THEN DateInOrder(numbers, good[1]) ELSE <<>>

\* database.parse_date_string(date_str): <<date>>, or <<>> when it raises
\* ValueError
parse_date_string(date_str) ==
    IF date_str = <<>> THEN <<>>
    ELSE IF FirstParsed(date_formats, date_str) # <<>>
    THEN FirstParsed(date_formats, date_str)
    ELSE DateOfNumbers(DigitRuns(date_str, <<>>))

\* The tables of init_db.  A station's id stands for its row: names are
\* UNIQUE, so the name identifies it.  fuel_reports is keyed by its UNIQUE
\* (station_id, report_date, fuel_type), daily_summary by its UNIQUE
\* (station_id, report_date), monthly_summary by its UNIQUE (station_id, year,
\* month): the year and month are the "yyyy-mm" of a report_date.
EmptyTables ==
    [stations |-> {}, fuel_reports |-> <<>>, daily_summary |-> <<>>,
     monthly_summary |-> <<>>]

\* the volume and amount columns of a daily_summary row
SummaryColumns == {"diesel", "regular", "super", "total"}
EmptySummary ==
    [volume |-> [c \in SummaryColumns |-> 0], amount |-> [c \in SummaryColumns |-> 0]]

\* "WHERE name = %s": the names of the model differ in more than letter
\* case and trailing spaces, which the collation ignores
SqlEquals(a, b) == a = b

\* SELECT id FROM stations WHERE name = %s, then INSERT when there is none
GetOrCreateStation(tables, station_name) ==
    IF \E s \in tables.stations : SqlEquals(s, station_name)
    THEN tables
    ELSE [tables EXCEPT !.stations = @ \cup {station_name}]

\* INSERT INTO fuel_reports ... ON DUPLICATE KEY UPDATE volume = VALUES(volume),
\* amount = VALUES(amount)
UpsertFuelReport(tables, station, report_date, fuel_type, volume, amount) ==
    [tables EXCEPT !.fuel_reports =
        Put(@, <<station, report_date, fuel_type>>, [volume |-> volume, amount |-> amount])]

\* the columns one fuel adds to: its category's, when it has one, and the total
ColumnsOf(fuel_category) ==
    IF fuel_category \in {"DIESEL", "REGULAR", "SUPER"}
    THEN {CategoryLower[fuel_category], "total"} ELSE {"total"}

RECURSIVE SumOfColumn(_, _, _, _)
\* SUM(column) over the daily_summary rows with the given keys
SumOfColumn(rows, keys, part, column) ==
    IF keys = {} THEN 0
    ELSE LET key == CHOOSE k \in keys : TRUE
         IN  rows[key][part][column] + SumOfColumn(rows, keys \ {key}, part, column)

\* YEAR(report_date) and MONTH(report_date) of a "yyyy-mm-dd"
YearMonth(report_date) == SubSeq(report_date, 1, 7)

\* the trigger update_monthly_summary_after_daily, AFTER INSERT ON
\* daily_summary: the month's row takes the sums over the station's
\* daily_summary rows of that month
MonthlyTrigger(tables, station, report_date) ==
    LET keys == {key \in DOMAIN tables.daily_summary :
                    key[1] = station /\ YearMonth(key[2]) = YearMonth(report_date)}
        row == [volume |-> [c \in SummaryColumns |->
                               SumOfColumn(tables.daily_summary, keys, "volume", c)],
                amount |-> [c \in SummaryColumns |->
                               SumOfColumn(tables.daily_summary, keys, "amount", c)],
                days_with_data |-> Cardinality(keys)]
    IN  [tables EXCEPT !.monthly_summary =
            Put(@, <<station, YearMonth(report_date)>>, row)]

\* INSERT INTO daily_summary ... ON DUPLICATE KEY UPDATE
\* total_volume = total_volume + VALUES(total_volume), ...: the trigger
\* fires when the row is inserted, not when it is updated
UpsertDailySummary(tables, station, report_date, fuel_category, volume, amount) ==
    LET key == <<station, report_date>>
        old == Get(tables.daily_summary, key, EmptySummary)
        new == [volume |-> [c \in SummaryColumns |->
                               IF c \in ColumnsOf(fuel_category)
                               THEN old.volume[c] + volume ELSE old.volume[c]],
                amount |-> [c \in SummaryColumns |->
                               IF c \in ColumnsOf(fuel_category)
                               THEN old.amount[c] + amount ELSE old.amount[c]]]
        written == [tables EXCEPT !.daily_summary = Put(@, key, new)]
    IN  IF key \in DOMAIN tables.daily_summary THEN written
        ELSE MonthlyTrigger(written, station, report_date)

\* "if not fuel_type or volume <= 0: continue"
FuelSkipped(fuel) == StrStrip[fuel.fuel_type] = "" \/ fuel.volume <= 0

\* the statements one pass of "for fuel in fuel_data" has executed when it
\* stops after `done` of its two INSERTs
FuelStatements(tables, station, report_date, fuel, done) ==
    LET fuel_type == StrStrip[fuel.fuel_type]
        first == UpsertFuelReport(tables, station, report_date, fuel_type,
                                  fuel.volume, fuel.amount)
    IN  IF FuelSkipped(fuel) \/ done = 0 THEN tables
        ELSE IF done = 1 THEN first
        ELSE UpsertDailySummary(first, station, report_date,
                                FuelCategory[fuel_type], fuel.volume, fuel.amount)

RECURSIVE AllFuelStatements(_, _, _, _)
\* the whole loop "for fuel in fuel_data"
AllFuelStatements(tables, station, report_date, fuel_data) ==
    IF fuel_data = <<>> THEN tables
    ELSE AllFuelStatements(FuelStatements(tables, station, report_date, fuel_data[1], 2),
                           station, report_date, Tail(fuel_data))

\* "if not station_name or not report_date_str or not fuel_data: return False"
\* and the ValueError of the date: save_report returns before it opens a cursor
SaveRejected(data) ==
    \/ StrStrip[data.station_name] = ""
    \/ data.report_date = <<>>
    \/ data.fuel_data = <<>>
    \/ parse_date_string(data.report_date) = <<>>

\* the report_date save_report and report_exists hand to the statements
ReportDateOf(report_date_str) == StrftimeISO(parse_date_string(report_date_str)[1])

\* every statement of one save_report(data), on the tables it began with
SaveStatements(tables, data) ==
    AllFuelStatements(GetOrCreateStation(tables, StrStrip[data.station_name]),
                      StrStrip[data.station_name], ReportDateOf(data.report_date),
                      data.fuel_data)

\* conn.rollback() keeping what the statements wrote, as a connection with
\* autocommit on would
RollbackKeepingWork(committed, work) == work

\* conn.rollback() of db_cursor: the tables are those of the last commit
Rollback(committed, work) == committed

\* conn.commit() of db_cursor: the tables are those the statements wrote
Commit(committed, work) == work

\* SELECT COUNT(*) FROM daily_summary ds JOIN stations s ON ds.station_id = s.id
\* WHERE s.name = %s AND ds.report_date = %s
CountSummaries(tables, station_name, report_date) ==
    Cardinality({key \in DOMAIN tables.daily_summary :
                    /\ key[1] \in tables.stations
                    /\ SqlEquals(key[1], station_name)
                    /\ key[2] = report_date})

\* report_exists(station_name, report_date) when its query succeeds: the
\* name is compared as it was passed
report_exists(tables, station_name, report_date) ==
    IF parse_date_string(report_date) = <<>> THEN FALSE
    ELSE CountSummaries(tables, station_name, ReportDateOf(report_date)) > 0

\* ------------------------------------ handle_report on the database
Fuel(fuel_type, volume, amount) ==
    [fuel_type |-> fuel_type, volume |-> volume, amount |-> amount]

\* fuel_data of the dicts format_for_database hands to handle_report: one
\* fuel, the same fuel type twice, a fuel without volume, two fuel types
StoreFuelData ==
    { <<Fuel("Diesel", 5, 10)>>,
      <<Fuel("Diesel", 5, 10), Fuel("Diesel", 7, 3)>>,
      <<Fuel("Regular", 7, 3), Fuel("Kerosene", 0, 0)>>,
      <<Fuel("Diesel", 5, 10), Fuel("Kerosene", 7, 3)>> }

StoreStations == {"X", " X", ""}
StoreDates == {StrftimeDMY([d |-> 5, m |-> 6, y |-> 2024])}

StoreReports ==
    [station_name : StoreStations, report_date : StoreDates, fuel_data : StoreFuelData]

\* no connection is open; work is what the last one had written when it closed
NoTransaction == [open |-> FALSE, work |-> EmptyTables]

\* handle_report is not running: handled counts the messages it has taken,
\* returned holds what its last save_report returned
IdleHandler == [pc |-> "idle", handled |-> 0, returned |-> <<>>]

\* ------------------------------------------------------- services.py
\* input_formats of services.save_report, in order
input_formats ==
    << Format("-", <<"Y", "m", "d">>), Format("/", <<"m", "d", "Y">>),
       Format("/", <<"m", "d", "y">>), Format("-", <<"d", "m", "Y">>),
       Format("/", <<"d", "m", "Y">>), Format("/", <<"d", "m", "y">>),
       Format("", <<"Y", "m", "d">>) >>

\* the formats services.report_exists tries, in order
exists_formats ==
    << Format("/", <<"d", "m", "y">>), Format("/", <<"d", "m", "Y">>),
       Format("-", <<"Y", "m", "d">>), Format("/", <<"m", "d", "Y">>),
       Format("/", <<"m", "d", "y">>) >>

\* formatted_date of save_report for a report_date string: the date under
\* the first format that parses it, written "%d/%m/%y"; the current date
\* when none does
SavedDate(report_date, t) ==
    IF FirstParsed(input_formats, report_date) # <<>>
    THEN StrftimeDMY(FirstParsed(input_formats, report_date)[1])
    ELSE StrftimeDMY(DateOfClock(t))

\* formatted_date of report_exists: str(report_date) when no format parses it
AskedDate(report_date) ==
    IF FirstParsed(exists_formats, report_date) # <<>>
    THEN StrftimeDMY(FirstParsed(exists_formats, report_date)[1])
    ELSE report_date

\* the rows "for fuel in data.get('fuels', [])" inserts into reports
RowsOf(data, t) ==
    [i \in 1..Len(data.fuels) |->
        [station_name |-> data.station_name,
         report_date |-> SavedDate(data.report_date, t),
         fuel_type |-> data.fuels[i].fuel_type,
         volume |-> data.fuels[i].volume,
         amount |-> data.fuels[i].amount]]

\* SELECT 1 FROM reports WHERE station_name=? AND report_date=? LIMIT 1
SelectReport(rows, station_name, formatted_date) ==
    \E i \in DOMAIN rows :
        rows[i].station_name = station_name /\ rows[i].report_date = formatted_date

\* services.report_exists(station_name, report_date) on the rows of reports
services_report_exists(rows, station_name, report_date) ==
    SelectReport(rows, station_name, AskedDate(report_date))

\* The dates handed to services.py, as texts: dd/mm/yy with a day above 12,
\* with day and month up to 12, with day equal to month; ISO; compact; no date.
ServiceDates ==
    { <<"1", "5", "/", "0", "3", "/", "2", "5">>,
      <<"0", "5", "/", "0", "6", "/", "2", "4">>,
      <<"0", "7", "/", "0", "7", "/", "2", "4">>,
      <<"2", "0", "2", "4", "-", "0", "6", "-", "0", "5">>,
      <<"2", "0", "2", "4", "0", "6", "0", "5">>,
      <<"t", "o", "d", "a", "y">> }

ServiceStations == {"X", "Y"}
ServiceFuels == {<<>>, <<Fuel("Diesel", 5, 10)>>, <<Fuel("Diesel", 5, 10), Fuel("Regular", 7, 3)>>}

ServiceReports ==
    [station_name : ServiceStations, report_date : ServiceDates, fuels : ServiceFuels]

\* no call of services.py yet: calls counts them, saved holds the
\* (station_name, report_date) save_report stored rows for, asked the last
\* report_exists call and what it returned
NoService == [calls |-> 0, saved |-> {}, asked |-> <<>>]

\* ------------------------------------------------ bot.py: custom dates
\* date_formats of bot.parse_date_string, in order; b is strptime's %b
bot_date_formats ==
    << Format("/", <<"Y", "m", "d">>), Format("/", <<"d", "m", "Y">>),
       Format("/", <<"d", "m", "y">>), Format("-", <<"Y", "m", "d">>),
       Format("-", <<"d", "b", "Y">>), Format("-", <<"d", "m", "Y">>),
       Format(".", <<"d", "m", "Y">>), Format("/", <<"m", "d", "Y">>),
       Format(".", <<"Y", "m", "d">>) >>

\* the formats tried on the cleaned string
cleaned_date_formats ==
    << Format("/", <<"Y", "m", "d">>), Format("/", <<"d", "m", "Y">>),
       Format("/", <<"m", "d", "Y">>) >>

\* the orderings (y, m, d) of the first three numbers in the last resort
bot_number_orders == << <<1, 2, 3>>, <<3, 2, 1>>, <<3, 1, 2>> >>

RECURSIVE BeforeSpace(_)
\* date_str.split(' ')[0]
BeforeSpace(chars) ==
    IF chars = <<>> \/ chars[1] = " " THEN <<>>
    ELSE <<chars[1]>> \o BeforeSpace(Tail(chars))

\* date_str.replace('.', '/').replace('-', '/') after the time part is cut
CleanedDate(chars) ==
    [i \in DOMAIN BeforeSpace(chars) |->
        IF BeforeSpace(chars)[i] \in {".", "-"} THEN "/" ELSE BeforeSpace(chars)[i]]

\* the last resort of bot.parse_date_string on the numbers of the cleaned string
BotDateOfNumbers(numbers) ==
    LET good == SelectSeq(bot_number_orders, LAMBDA o : DateInOrder(numbers, o) # <<>>)
    IN  IF Len(numbers) >= 3 /\ good # <<>> THEN DateInOrder(numbers, good[1]) ELSE <<>>

\* bot.parse_date_string(date_str) at clock t: <<date>>, or <<>> when it
\* raises ValueError.  A string that begins with % gives date.today().
bot_parse_date_string(date_str, t) ==
    IF date_str = <<>> THEN <<>>
    ELSE IF date_str[1] = "%" THEN <<DateOfClock(t)>>
    ELSE IF FirstParsed(bot_date_formats, date_str) # <<>>
    THEN FirstParsed(bot_date_formats, date_str)
    ELSE IF FirstParsed(cleaned_date_formats, CleanedDate(date_str)) # <<>>
    THEN FirstParsed(cleaned_date_formats, CleanedDate(date_str))
    ELSE BotDateOfNumbers(DigitRuns(CleanedDate(date_str), <<>>))

\* ------------------------------------------- bot.py: user_selections
Users == {"u1", "u2"}

\* "ORDER BY name" on the station names that occur
NameOrder == <<"A", "B", "X">>

\* database.get_all_stations()
get_all_stations(tables) == SelectSeq(NameOrder, LAMBDA name : name \in tables.stations)

\* user_selections = defaultdict(dict), then
\* user_selections["station_mapping"] = {}
InitialSelections == [station_mapping |-> <<>>]

\* user_selections[key]: a defaultdict gives the empty dict for a missing key
SelectionsOf(selections, key) == Get(selections, key, <<>>)

\* user_selections[key][field] = value
SetSelection(selections, key, field, value) ==
    Put(selections, key, Put(SelectionsOf(selections, key), field, value))

\* "user_id in user_selections and 'waiting_for_date' in user_selections[user_id]"
WaitingForDate(selections, user_id) ==
    user_id \in DOMAIN selections /\ "waiting_for_date" \in DOMAIN selections[user_id]

\* the waiting state is left as it is
KeepWaiting(selections, user_id) == selections

\* "del user_selections[user_id]['waiting_for_date']" under its guard
ClearWaiting(selections, user_id) ==
    IF WaitingForDate(selections, user_id)
    THEN Put(selections, user_id,
             [field \in DOMAIN selections[user_id] \ {"waiting_for_date"} |->
                 selections[user_id][field]])
    ELSE selections

\* str(i) and int(station_index) for the indexes of a keyboard
IndexText(i) == DigitChar[i + 1]
IndexOf(station_index) == DigitValue(station_index)

\* a button of an inline keyboard: its text and its callback data, the
\* prefix before the colon and the rest after it
Button(text, prefix, rest) == [text |-> text, prefix |-> prefix, rest |-> rest]

\* the station buttons of create_station_keyboard for the list `stations`:
\* button i shows the name and carries "station:" and the index
StationButtons(stations) ==
    [k \in 1..Len(stations) |-> Button(stations[k], "station", IndexText(k - 1))]

RECURSIVE MappingAfter(_, _, _)
\* user_selections["station_mapping"][str(i)] = station, for the stations
\* from position k on
MappingAfter(mapping, stations, k) ==
    IF k > Len(stations) THEN mapping
    ELSE MappingAfter(Put(mapping, IndexText(k - 1), stations[k]), stations, k + 1)

\* the station handle_callback_query resolves for "station:<index>": the
\* mapping's, else the one at that position of the list now; <<>> when none
ResolveStation(selections, stations, station_index) ==
    IF station_index \in DOMAIN selections["station_mapping"]
    THEN <<selections["station_mapping"][station_index]>>
    ELSE IF IndexOf(station_index) < Len(stations)
    THEN <<stations[IndexOf(station_index) + 1]>>
    ELSE <<>>

\* the texts users send: dates in several formats, a format string, words
BotTexts ==
    { <<"2", "0", "2", "4", "/", "1", "2", "/", "2", "7">>,
      <<"0", "5", "/", "0", "6", "/", "2", "4">>,
      <<"2", "7", "-", "D", "e", "c", "-", "2", "0", "2", "4">>,
      <<"%", "Y">>,
      <<"h", "e", "l", "l", "o">>,
      <<"2", "7", " ", "1", "2", " ", "2", "0", "2", "4">> }

\* what generate_summary_by_period finds for the station and the date
Lookups == {"no_station_data", "no_fuels", "report"}

\* no update has been handled
NoUpdate == [kind |-> "none"]

\* ------------------------------------------------------------ the machine
NoRecord == <<>>

Init ==
    /\ pc = "idle"
    /\ now = 0
    /\ report_text = Text(<<>>)
    /\ result = NoRecord
    /\ raised = FALSE
    /\ log = ""
    /\ db_data = NoRecord
    /\ earlier = NoRecord
    /\ parser = ReportParser
    /\ calls = [c \in CallIds |-> IdleCall]
    /\ database = EmptyTables
    /\ handler = IdleHandler
    /\ txn = NoTransaction
    /\ saves = <<>>
    /\ reports = <<>>
    /\ service = NoService
    /\ user_selections = InitialSelections
    /\ shown = [user_id \in Users |-> <<>>]
    /\ last_update = NoUpdate

\* a report text arrives (handle_report with update.message.text, or any
\* other caller of the module's parse_daily_report)
ReceiveReport ==
    /\ pc = "idle"
    /\ \E text \in Reports : report_text' = text
    /\ pc' = "received"
    /\ UNCHANGED <<now, result, raised, log, db_data, earlier, parser, calls, storeVars, servicesVars, botVars>>

\* parsed_data = parse_daily_report(update.message.text)
ParseDailyReport ==
    /\ pc = "received"
    /\ LET out == parse_daily_report(report_text, now)
       IN  /\ result' = out.result
           /\ log' = out.log
           /\ raised' = out.raised
    /\ pc' = "parsed"
    /\ UNCHANGED <<now, report_text, db_data, earlier, parser, calls, storeVars, servicesVars, botVars>>

\* the same text is parsed once more: result = parser.parse_daily_report(
\* report_text) on the text of the call before; the record of that call is
\* kept in earlier
ParseAgain ==
    /\ pc = "parsed"
    /\ ~raised
    /\ earlier = NoRecord
    /\ earlier' = result
    /\ LET out == parse_daily_report(report_text, now)
       IN  /\ result' = out.result
           /\ log' = out.log
           /\ raised' = out.raised
    /\ UNCHANGED <<pc, now, report_text, db_data, parser, calls, storeVars, servicesVars, botVars>>

\* data = format_for_database(parsed_data)
FormatForDatabase ==
    /\ pc = "parsed"
    /\ ~raised
    /\ db_data' = format_for_database(result, now)
    /\ result' = WithTotals(result)
    /\ pc' = "formatted"
    /\ UNCHANGED <<now, report_text, raised, log, earlier, parser, calls, storeVars, servicesVars, botVars>>

\* handle_report returns; the next message is awaited
Return ==
    /\ pc \in {"formatted", "parsed"}
    /\ pc = "parsed" => raised
    /\ pc' = "idle"
    /\ report_text' = Text(<<>>)
    /\ result' = NoRecord
    /\ raised' = FALSE
    /\ log' = ""
    /\ db_data' = NoRecord
    /\ earlier' = NoRecord
    /\ UNCHANGED <<now, parser, calls, storeVars, servicesVars, botVars>>

\* the system clock passes midnight
Tick ==
    /\ now < MaxClock
    /\ pc \in {"idle", "parsed"}
    /\ now' = now + 1
    /\ UNCHANGED <<pc, report_text, result, raised, log, db_data, earlier, parser, calls, storeVars, servicesVars, botVars>>

Next ==
    \/ ReceiveReport
    \/ ParseDailyReport
    \/ ParseAgain
    \/ FormatForDatabase
    \/ Return
    \/ Tick

Spec == Init /\ [][Next]_vars

\* --------------------------------------- concurrent calls on one parser
\* call c begins: parser.parse_daily_report(text) is entered
BeginCall(c) ==
    /\ calls[c].pc = "idle"
    /\ \E text \in ConcurrentReports :
           calls' = [calls EXCEPT ![c] = [pc |-> "entered", text |-> text]]
    /\ UNCHANGED <<pc, now, report_text, result, raised, log, db_data, earlier, parser, storeVars, servicesVars, botVars>>

\* call c runs up to step 5: the lines are split, the sections parsed and the
\* fuel data selected; a text without lines, or no text, returns the error
\* record
SelectStep(c) ==
    /\ calls[c].pc = "entered"
    /\ LET text == calls[c].text
           lines == StripLines(text.lines)
           summary_data == parse_summary_data(lines)
           pumps_data == parse_pump_data(lines)
       IN  calls' = [calls EXCEPT ![c] =
               IF ~text.is_text \/ lines = <<>>
               THEN [pc |-> "returned", text |-> text,
                     result |-> CatchException(TryParse(text, now), now).result]
               ELSE [pc |-> "selected", text |-> text, lines |-> lines,
                     summary_data |-> summary_data, pumps_data |-> pumps_data,
                     fuel_data |-> SelectFuelData(summary_data, pumps_data, lines).fuel_data]]
    /\ UNCHANGED <<pc, now, report_text, result, raised, log, db_data, earlier, parser, storeVars, servicesVars, botVars>>

\* call c runs step 7 on the shared parser
MapStep(c) ==
    /\ calls[c].pc = "selected"
    /\ LET out == IF calls[c].fuel_data # <<>>
                  THEN MapOnParser(parser, calls[c].fuel_data)
                  ELSE [parser |-> parser, fuel_data |-> calls[c].fuel_data]
       IN  /\ parser' = out.parser
           /\ calls' = [calls EXCEPT ![c].pc = "mapped", ![c].fuel_data = out.fuel_data]
    /\ UNCHANGED <<pc, now, report_text, result, raised, log, db_data, earlier, storeVars, servicesVars, botVars>>

\* call c builds its record (station, date, totals, validation) and returns it
ReturnStep(c) ==
    /\ calls[c].pc = "mapped"
    /\ calls' = [calls EXCEPT ![c] =
           [pc |-> "returned", text |-> calls[c].text,
            result |-> WithValidation(Unvalidated(calls[c].lines, now,
                           calls[c].summary_data, calls[c].pumps_data,
                           calls[c].fuel_data))]]
    /\ UNCHANGED <<pc, now, report_text, result, raised, log, db_data, earlier, parser, storeVars, servicesVars, botVars>>

\* the caller of call c has its record; the thread is free for a next call
EndCall(c) ==
    /\ calls[c].pc = "returned"
    /\ calls' = [calls EXCEPT ![c] = IdleCall]
    /\ UNCHANGED <<pc, now, report_text, result, raised, log, db_data, earlier, parser, storeVars, servicesVars, botVars>>

NextConcurrent ==
    \E c \in CallIds :
        \/ BeginCall(c)
        \/ SelectStep(c)
        \/ MapStep(c)
        \/ ReturnStep(c)
        \/ EndCall(c)

SpecConcurrent == Init /\ [][NextConcurrent]_vars

\* ----------------------------- handle_report and the database: actions
\* handle_report has parsed and formatted a message: data is the dict of
\* format_for_database.  "if not station or not report_date" answers that
\* the report could not be parsed and returns.
TakeReport(data) ==
    /\ handler.pc = "idle"
    /\ handler.handled < MaxMessages
    /\ handler' =
           IF data.station_name = "" \/ data.report_date = <<>>
           THEN [pc |-> "idle", handled |-> handler.handled + 1, returned |-> <<>>]
           ELSE [pc |-> "checking", handled |-> handler.handled + 1, returned |-> <<>>,
                 data |-> data]
    /\ UNCHANGED <<parserVars, servicesVars, botVars, database, txn, saves>>

\* "if report_exists(station, report_date)": the duplicate is answered and
\* handle_report returns.  When the query raises Error, report_exists
\* returns False.
CheckDuplicate ==
    /\ handler.pc = "checking"
    /\ \E failed \in BOOLEAN :
          LET exists == /\ ~failed
                        /\ report_exists(database, handler.data.station_name,
                                         handler.data.report_date)
          IN  handler' = IF exists
                         THEN [pc |-> "idle", handled |-> handler.handled,
                               returned |-> <<>>]
                         ELSE [handler EXCEPT !.pc = "unique"]
    /\ UNCHANGED <<parserVars, servicesVars, botVars, database, txn, saves>>

\* save_report returns False: the connection, when one is open, is rolled
\* back and closed with `work` written
SaveFails(work) ==
    /\ database' = Rollback(database, work)
    /\ txn' = [open |-> FALSE, work |-> work]
    /\ handler' = [pc |-> "idle", handled |-> handler.handled, returned |-> <<FALSE>>]
    /\ UNCHANGED <<parserVars, servicesVars, botVars, saves>>

\* save_report(data) up to the cursor of db_cursor: it returns False for
\* missing data, a date that does not parse, or a connection that cannot
\* be had
BeginSave ==
    /\ handler.pc = "unique"
    /\ \E connected \in BOOLEAN :
          IF SaveRejected(handler.data) \/ ~connected
          THEN SaveFails(database)
          ELSE /\ handler' = [handler EXCEPT !.pc = "saving"]
               /\ txn' = [open |-> TRUE, work |-> database, step |-> 0]
               /\ UNCHANGED <<parserVars, servicesVars, botVars, database, saves>>

\* "Get or create station": the SELECT and the INSERT, either may raise Error
SaveStation ==
    /\ handler.pc = "saving"
    /\ txn.step = 0
    /\ \E failed \in BOOLEAN :
          IF failed
          THEN SaveFails(txn.work)
          ELSE /\ txn' = [txn EXCEPT
                             !.work = GetOrCreateStation(@, StrStrip[handler.data.station_name]),
                             !.step = 1]
               /\ UNCHANGED <<parserVars, servicesVars, botVars, database, handler, saves>>

\* one pass of "for fuel in fuel_data": both INSERTs, or Error after `done`
\* of them
SaveFuel ==
    /\ handler.pc = "saving"
    /\ txn.step \in 1..Len(handler.data.fuel_data)
    /\ \E done \in 0..2 :
          LET fuel == handler.data.fuel_data[txn.step]
              work == FuelStatements(txn.work, StrStrip[handler.data.station_name],
                                     ReportDateOf(handler.data.report_date), fuel, done)
          IN  IF done < 2 /\ ~FuelSkipped(fuel)
              THEN SaveFails(work)
              ELSE /\ txn' = [txn EXCEPT !.work = work, !.step = @ + 1]
                   /\ UNCHANGED <<parserVars, servicesVars, botVars, database, handler, saves>>

\* the end of the with block: conn.commit(), and save_report returns True;
\* or commit raises Error, and it returns False
CommitSave ==
    /\ handler.pc = "saving"
    /\ txn.step = Len(handler.data.fuel_data) + 1
    /\ \E failed \in BOOLEAN :
          IF failed
          THEN SaveFails(txn.work)
          ELSE /\ database' = Commit(database, txn.work)
               /\ txn' = [open |-> FALSE, work |-> txn.work]
               /\ handler' = [pc |-> "idle", handled |-> handler.handled,
                              returned |-> <<TRUE>>]
               /\ saves' = Put(saves, <<handler.data.station_name, handler.data.report_date>>,
                               Get(saves, <<handler.data.station_name,
                                            handler.data.report_date>>, 0) + 1)
               /\ UNCHANGED <<parserVars, servicesVars, botVars>>

NextDatabase ==
    \/ \E data \in StoreReports : TakeReport(data)
    \/ CheckDuplicate
    \/ BeginSave
    \/ SaveStation
    \/ SaveFuel
    \/ CommitSave

SpecDatabase == Init /\ [][NextDatabase]_vars

\* ------------------------------------------------ services.py: actions
\* services.save_report(data): the rows are inserted and committed
ServicesSaveReport(data) ==
    /\ service.calls < MaxServiceCalls
    /\ reports' = reports \o RowsOf(data, now)
    /\ service' = [service EXCEPT
                      !.calls = @ + 1,
                      !.saved = IF data.fuels = <<>> THEN @
                                ELSE @ \cup {<<data.station_name, data.report_date>>}]
    /\ UNCHANGED <<parserVars, storeVars, botVars>>

\* services.report_exists(station_name, report_date)
ServicesReportExists(station_name, report_date) ==
    /\ service.calls < MaxServiceCalls
    /\ service' = [service EXCEPT
                      !.calls = @ + 1,
                      !.asked = <<[station_name |-> station_name,
                                   report_date |-> report_date,
                                   returned |-> services_report_exists(
                                       reports, station_name, report_date)]>>]
    /\ UNCHANGED <<parserVars, storeVars, botVars, reports>>

NextServices ==
    \/ \E data \in ServiceReports : ServicesSaveReport(data)
    \/ \E station_name \in ServiceStations, report_date \in ServiceDates :
          ServicesReportExists(station_name, report_date)
    \/ Tick

SpecServices == Init /\ [][NextServices]_vars

\* ------------------------------------------------- bot.py: the updates
\* Updates are handled one after the other (the application is built
\* without concurrent_updates), so each handler is one step.

\* A report of station `name` has been saved: get_all_stations() lists it
\* from now on.
StationSaved(name) ==
    /\ name \notin database.stations
    /\ database' = Commit(database, GetOrCreateStation(database, name))
    /\ UNCHANGED <<parserVars, servicesVars, botVars, handler, txn, saves>>

\* A station keyboard is sent to the user (the report command, the refresh
\* and the back buttons): create_station_keyboard() writes the shared
\* station_mapping and returns the buttons.  Without stations there is no
\* station button.
ShowStations(user_id) ==
    /\ shown' = [shown EXCEPT ![user_id] = StationButtons(get_all_stations(database))]
    /\ user_selections' =
           Put(user_selections, "station_mapping",
               MappingAfter(user_selections["station_mapping"],
                            get_all_stations(database), 1))
    /\ last_update' = [kind |-> "keyboard", user_id |-> user_id]
    /\ UNCHANGED <<parserVars, storeVars, servicesVars>>

\* handle_callback_query for "station:<index>": the user presses button k of
\* the station keyboard on their screen.  The message is edited to the date
\* keyboards of the station, which lead to the "Custom Date..." button.
PressStation(user_id, k) ==
    /\ k \in DOMAIN shown[user_id]
    /\ shown[user_id][k].prefix = "station"
    /\ LET button == shown[user_id][k]
           station == ResolveStation(user_selections, get_all_stations(database),
                                     button.rest)
       IN  /\ user_selections' =
                  IF station # <<>>
                  THEN SetSelection(user_selections, user_id, "station", station[1])
                  ELSE user_selections
           /\ shown' = [shown EXCEPT ![user_id] =
                           IF station # <<>>
                           THEN <<Button("Custom Date...", "custom_date", station[1])>>
                           ELSE <<>>]
           /\ last_update' = [kind |-> "station", user_id |-> user_id,
                              button |-> button, station |-> station]
    /\ UNCHANGED <<parserVars, storeVars, servicesVars>>

\* handle_callback_query for "custom_date:<station>": the user is asked for
\* a date and the waiting state is stored
PressCustomDate(user_id) ==
    /\ shown[user_id] # <<>>
    /\ shown[user_id][1].prefix = "custom_date"
    /\ user_selections' = SetSelection(user_selections, user_id, "waiting_for_date",
                                       shown[user_id][1].rest)
    /\ shown' = [shown EXCEPT ![user_id] = <<>>]
    /\ last_update' = [kind |-> "custom_date", user_id |-> user_id]
    /\ UNCHANGED <<parserVars, storeVars, servicesVars>>

\* handle_text_input: a user sends a text.  While the user waits for a date
\* the text is read as one: when it parses, the report is looked up, the
\* answer sent and the waiting state cleared; when it does not, the user is
\* told so and keeps waiting.  Any other text goes to handle_report.
HandleTextInput(user_id, text) ==
    /\ LET waiting == WaitingForDate(user_selections, user_id)
           parsed == waiting /\ bot_parse_date_string(text, now) # <<>>
       IN \E lookup \in IF parsed THEN Lookups ELSE {"none"} :
              /\ user_selections' =
                     IF parsed
                     THEN ClearWaiting(user_selections, user_id)
                     ELSE user_selections
              /\ last_update' =
                     [kind |-> "text", user_id |-> user_id, text |-> text,
                      forwarded |-> ~waiting,
                      answer |-> IF ~waiting THEN "handle_report"
                                 ELSE IF ~parsed THEN "invalid_date"
                                 ELSE lookup]
    /\ UNCHANGED <<parserVars, storeVars, servicesVars, shown>>

NextBot ==
    \/ \E name \in {"A", "B"} : StationSaved(name)
    \/ \E user_id \in Users : ShowStations(user_id)
    \/ \E user_id \in Users, k \in 1..Len(NameOrder) : PressStation(user_id, k)
    \/ \E user_id \in Users : PressCustomDate(user_id)
    \/ \E user_id \in Users, text \in BotTexts : HandleTextInput(user_id, text)

SpecBot == Init /\ [][NextBot]_vars

\* =============================================================== properties
\* parse_daily_report has returned its record to handle_report
Returned == pc \in {"parsed", "formatted"} /\ ~raised

\* the lines parse_daily_report works on
ReportLines == StripLines(report_text.lines)

\* the record is the one _create_error_result builds
IsErrorResult(r) == "error" \in DOMAIN r.metadata

\* the keys of a result record
result_fields ==
    {"station_name", "report_date", "pump_data", "summary_data", "fuel_data",
     "total_sales", "metadata"}

\* the date of the clock when the record was parsed
ParsedOn(r) == StrftimeDMY(DateOfClock(r.metadata.parsed_at))

\* ----------------------------------------------------------------- C1
\* C1: parse_daily_report never raises.  Whatever the input, the call returns
\* a result record, and when a stage fails (the message is no text, so that
\* report_text.split raises) the record is the error result.
C1_NeverRaises ==
    pc \in {"parsed", "formatted"} =>
        /\ ~raised
        /\ DOMAIN result = result_fields
        /\ ~report_text.is_text =>
               /\ IsErrorResult(result)
               /\ result.metadata.is_valid = FALSE
               /\ result.station_name = "UNKNOWN"
               /\ result.fuel_data = <<>>

\* a message that is no text has been parsed: the failure became the error result
C1_FailureCaught ==
    /\ pc = "parsed"
    /\ ~report_text.is_text
    /\ ~raised
    /\ result.metadata.error = "AttributeError"

\* ----------------------------------------------------------------- C2
\* C2: for an empty or whitespace-only text, the record format_for_database
\* delivers after parse_daily_report has is_valid = FALSE and
\* validation_score = 0.
C2_EmptyInputIsInvalid ==
    (pc = "formatted" /\ report_text.is_text /\ ReportLines = <<>>) =>
        /\ db_data.is_valid = FALSE
        /\ db_data.validation_score.num = 0

\* ----------------------------------------------------------------- C3
\* <<label, volume, amount>> of each entry, the label read from field key
Triples(entries, key) ==
    [i \in DOMAIN entries |-> <<entries[i][key], entries[i].volume, entries[i].amount>>]

\* C3: the source of fuel_data follows a strict precedence.  When the summary
\* section yields an entry, fuel_data holds the summary's entries and nothing
\* else; otherwise, when a pump section has entries, it holds the aggregation
\* over the pumps; the scan of all lines is used only when both are empty.
C3_SourcePrecedence ==
    (Returned /\ ~IsErrorResult(result)) =>
        LET summary == parse_summary_data(ReportLines)
            pumps == parse_pump_data(ReportLines)
            fuels == Triples(result.fuel_data, "original_fuel_type")
        IN  /\ result.summary_data = summary
            /\ result.pump_data = pumps
            /\ summary # <<>> =>
                   /\ fuels = Triples(summary, "fuel_type")
                   /\ log = "Using fuel data from summary section"
            /\ (summary = <<>> /\ pumps # <<>>) =>
                   /\ fuels = Triples(extract_fuel_data_from_pumps(pumps), "fuel_type")
                   /\ \A i \in DOMAIN result.fuel_data :
                          "pump_count" \in DOMAIN result.fuel_data[i]
                   /\ log = "Using fuel data aggregated from pumps"
            /\ (summary = <<>> /\ pumps = <<>>) =>
                   /\ fuels = Triples(extract_fuel_data_from_lines(ReportLines), "fuel_type")
                   /\ log = "Using fuel data extracted directly from lines"

\* a report with a summary and pumps that disagree: fuel_data is the summary's
C3_SummaryBeatsPumps ==
    /\ pc = "parsed"
    /\ ~IsErrorResult(result)
    /\ result.summary_data # <<>>
    /\ result.pump_data # <<>>
    /\ Triples(extract_fuel_data_from_pumps(result.pump_data), "fuel_type")
           # Triples(result.summary_data, "fuel_type")
    /\ Triples(result.fuel_data, "original_fuel_type")
           = Triples(result.summary_data, "fuel_type")

\* ----------------------------------------------------------------- C4
\* dd/mm/yy: two digits of day, of month, of year, two slashes
IsCanonicalDate(text) ==
    /\ Len(text) = 8
    /\ text[3] = "/" /\ text[6] = "/"
    /\ \A k \in {1, 2, 4, 5, 7, 8} : text[k] \in DigitChars
    /\ 10 * DigitValue(text[1]) + DigitValue(text[2]) \in 1..31
    /\ 10 * DigitValue(text[4]) + DigitValue(text[5]) \in 1..12

\* C4: in every record parse_daily_report returns, the error result included,
\* report_date is a string of the form dd/mm/yy, whichever step produced it.
C4_ReportDateCanonical == Returned => IsCanonicalDate(result.report_date)

\* a report whose date comes from the numeric fallback ("7 8 2023")
C4_NumericFallbackCanonical ==
    /\ pc = "parsed"
    /\ ReportLines # <<>>
    /\ \A i \in DOMAIN ReportLines : ReportLines[i].dates = <<>>
    /\ result.report_date = <<"0", "7", "/", "0", "8", "/", "2", "3">>

\* ----------------------------------------------------------------- C5
\* the lines holding a date range whose start is a date of the calendar
RangeLines ==
    {i \in DOMAIN ReportLines :
        RangeMatch(ReportLines[i]) /\ ParseDateString(ReportLines[i].dates[1]) # <<>>}

\* C5: when a line of the report holds a date range, report_date is the start
\* date of a range, whatever single dates stand on other lines and whatever
\* other words stand on the range line.
C5_RangeStartWins ==
    (Returned /\ ~IsErrorResult(result) /\ RangeLines # {}) =>
        \E i \in RangeLines :
            result.report_date = StrftimeDMY(ParseDateString(ReportLines[i].dates[1])[1])

\* ----------------------------------------------------------------- C6
\* no line holds a date, or three numbers the numeric fallback could read
NoDateOnAnyLine ==
    \A i \in DOMAIN ReportLines :
        /\ ReportLines[i].dates = <<>>
        /\ Len(NumbersOfLine(ReportLines[i])) < 3

\* a validation warning about the date
date_warnings == {"Invalid date format", "DateFallbackUsed"}

HasNegativeVolume(line) ==
    /\ line.dates = <<>>
    /\ line.label \in RawLabels
    /\ line.nums # <<>>
    /\ line.nums[1].neg /\ line.nums[1].digits /\ line.nums[1].val > 0

\* C7: a fuel line whose volume field is negative produces no entry:
\* parse_fuel_line returns nothing for it, and when no other line names its
\* fuel type the type is absent from fuel_data.
C7_NegativeVolumeRejected ==
    (Returned /\ ~IsErrorResult(result)) =>
        \A i \in DOMAIN ReportLines :
            HasNegativeVolume(ReportLines[i]) =>
                /\ parse_fuel_line(ReportLines[i]) = <<>>
                /\ (\A j \in DOMAIN ReportLines :
                        j # i => ReportLines[j].label # ReportLines[i].label)
                   => \A k \in DOMAIN result.fuel_data :
                          result.fuel_data[k].original_fuel_type # ReportLines[i].label

\* ----------------------------------------------------------------- C8
PositiveEntries(entries) ==
    \A i \in DOMAIN entries : entries[i].volume > 0 /\ entries[i].amount >= 0

\* C8: in every record parse_daily_report returns, every entry of fuel_data,
\* of summary_data and of every pump has volume > 0 and amount >= 0.
C8_EntriesPositive ==
    Returned =>
        /\ PositiveEntries(result.fuel_data)
        /\ PositiveEntries(result.summary_data)
        /\ \A i \in DOMAIN result.pump_data : PositiveEntries(result.pump_data[i].fuels)

\* a line with volume 0 among the lines of a report that yields fuel data:
\* the line gave no entry
C8_ZeroVolumeDiscarded ==
    /\ pc = "parsed"
    /\ \E i \in DOMAIN ReportLines :
           /\ ReportLines[i].label = "Super"
           /\ ReportLines[i].nums # <<>>
           /\ ReportLines[i].nums[1] = Num(0)
    /\ result.fuel_data # <<>>
    /\ \A k \in DOMAIN result.fuel_data : result.fuel_data[k].original_fuel_type # "Super"

\* ----------------------------------------------------------------- C9
\* C9: in the final fuel_data no two entries share the same canonical fuel
\* type: entries whose labels map to one type are merged into one entry.
C9_OneEntryPerFuelType ==
    Returned =>
        \A i, j \in DOMAIN result.fuel_data :
            i # j => result.fuel_data[i].fuel_type # result.fuel_data[j].fuel_type

\* ---------------------------------------------------------------- C10
canonical_names == {"Diesel", "Regular", "Super"}

\* a step of the mapper before the last resort recognises the label
Recognised(label) ==
    \/ MappingGet(label) # <<>>
    \/ MappingGet(StrLower[label]) # <<>>
    \/ BestPartialMatch(label, 1, <<>>, 0) # <<>>
    \/ AnyKeywordIn(diesel_words \cup regular_words \cup super_words, StrLower[label])

\* C10: with the default table every label the mapper recognises gets exactly
\* the name Diesel, Regular or Super, whatever its letter case and whichever
\* step matched.
C10_CanonicalNamesOnly ==
    Returned =>
        \A i \in DOMAIN result.fuel_data :
            Recognised(result.fuel_data[i].original_fuel_type)
                => result.fuel_data[i].fuel_type \in canonical_names

\* ---------------------------------------------------------------- C11
\* no line of the report names a total
NoTotalLine ==
    \A i \in DOMAIN ReportLines :
        ~AnyKeywordIn(total_keywords, StrLower[ReportLines[i].label])

\* the sums of volume and amount over the entries
SumsOf(entries) ==
    [volume |-> SumOver(entries, "volume"), amount |-> SumOver(entries, "amount")]

\* C11: when the report has no total line and fuel_data is not empty, the
\* total volume and amount of the result are the sums of volume and amount
\* over the final fuel_data.
C11_TotalsAreSums ==
    (Returned /\ ~IsErrorResult(result) /\ NoTotalLine /\ result.fuel_data # <<>>) =>
        /\ result.total_sales = SumsOf(result.fuel_data)
        /\ pc = "formatted" =>
               /\ db_data.total_volume = SumOver(db_data.fuel_data, "volume")
               /\ db_data.total_amount = SumOver(db_data.fuel_data, "amount")

\* a report of two fuel lines and no total line: the totals are 12 and 13
C11_TwoLinesSummed ==
    /\ pc = "formatted"
    /\ NoTotalLine
    /\ Len(result.fuel_data) = 2
    /\ result.total_sales = [volume |-> 12, amount |-> 13]
    /\ db_data.total_volume = 12

\* ---------------------------------------------------------------- C12
\* the totals the total line states
ExplicitTotal == extract_total_sales(ReportLines)

\* an explicit total stands against calculated totals
TotalsCompared ==
    /\ Returned
    /\ ~IsErrorResult(result)
    /\ result.fuel_data # <<>>
    /\ ExplicitTotal.volume > 0
    /\ SumOver(result.fuel_data, "volume") > 0

\* volume and amount of the calculated totals are both within pct percent of
\* the explicit ones (an explicit amount of 0 is never within)
TotalsWithin(pct) ==
    LET calculated == SumsOf(result.fuel_data)
    IN  /\ Abs(calculated.volume - ExplicitTotal.volume) * 100 <= pct * ExplicitTotal.volume
        /\ ExplicitTotal.amount > 0
        /\ Abs(calculated.amount - ExplicitTotal.amount) * 100 <= pct * ExplicitTotal.amount

\* C12 as stated: the explicit totals are kept when the calculated ones are
\* within the wide tolerance of 10 percent, and replaced by the calculated
\* ones only above it.
C12_KeptWithinTenPercent ==
    TotalsCompared =>
        /\ TotalsWithin(10) => result.total_sales = ExplicitTotal
        /\ ~TotalsWithin(10) => result.total_sales = SumsOf(result.fuel_data)

\* C12 as amended: the explicit totals are kept when volume and amount of the
\* calculated ones are both within 5 percent, and replaced by the calculated
\* ones when either differs by more than 5 percent.
C12_KeptWithinFivePercent ==
    TotalsCompared =>
        /\ TotalsWithin(5) => result.total_sales = ExplicitTotal
        /\ ~TotalsWithin(5) => result.total_sales = SumsOf(result.fuel_data)

\* a total line of 99 against fuel lines of 100: above 1 percent, within 5,
\* the explicit total is kept
C12_KeptBetweenTolerances ==
    /\ pc = "parsed"
    /\ TotalsCompared
    /\ ExplicitTotal = [volume |-> 99, amount |-> 100]
    /\ SumOver(result.fuel_data, "volume") = 100
    /\ result.total_sales.volume = 99

\* ---------------------------------------------------------------- C13
\* C13: whenever the explicit and the calculated totals differ by more than
\* the tight tolerance (2 percent), the warnings of the returned record hold
\* a totals-mismatch warning.
C13_MismatchWarned ==
    (TotalsCompared /\ ~TotalsWithin(2)) =>
        \E i \in DOMAIN result.metadata.validation.warnings :
            result.metadata.validation.warnings[i] = "Volume mismatch"

\* ---------------------------------------------------------------- C14
\* the validation of the record: that of parse_daily_report
ValidationOfResult == result.metadata.validation

\* C14: in every validation, checks_passed <= checks_total, the score is
\* checks_passed / checks_total * 100 and lies in 0..100; every check counts
\* once in checks_total (seven checks, eight with fuel data) and a check that
\* fails leaves one error or warning instead of a pass.
C14_ScoreCounts ==
    /\ (Returned /\ ~IsErrorResult(result)) =>
           LET v == ValidationOfResult
           IN  /\ v.checks_passed <= v.checks_total
               /\ v.checks_total = (IF result.fuel_data # <<>> THEN 8 ELSE 7)
               /\ v.checks_passed = v.checks_total - Len(v.errors) - Len(v.warnings)
               /\ v.score = [num |-> v.checks_passed * 100, den |-> v.checks_total]
               /\ 0 <= v.score.num /\ v.score.num <= 100 * v.score.den
    /\ pc = "formatted" =>
           /\ db_data.validation_score.den > 0
           /\ 0 <= db_data.validation_score.num
           /\ db_data.validation_score.num <= 100 * db_data.validation_score.den
           /\ db_data.validation_score.num =
                  (db_data.validation_score.den - Len(db_data.validation_warnings)) * 100

\* a record whose fuel check failed: six of seven checks passed, one warning
C14_SixOfSeven ==
    /\ pc = "parsed"
    /\ ~IsErrorResult(result)
    /\ ValidationOfResult.checks_passed = 6
    /\ ValidationOfResult.checks_total = 7
    /\ Len(ValidationOfResult.warnings) = 1

\* ---------------------------------------------------------------- C15
\* C15: a record with no fuel data is reported with is_valid = FALSE and an
\* error entry.
C15_NoFuelDataInvalid ==
    (Returned /\ ~IsErrorResult(result) /\ result.fuel_data = <<>>) =>
        /\ ValidationOfResult.is_valid = FALSE
        /\ ValidationOfResult.errors # <<>>
        /\ pc = "formatted" => db_data.is_valid = FALSE

\* ---------------------------------------------------------------- C16
\* C16: for every input with a non-blank line, station_name is neither empty
\* nor whitespace, also when the first line is a station prefix or
\* punctuation only.
C16_StationNameNotEmpty ==
    (Returned /\ report_text.is_text /\ ReportLines # <<>>) =>
        /\ result.station_name \notin {"", " "}
        /\ pc = "formatted" => db_data.station_name \notin {"", " "}

\* the first line is the prefix "Station" alone: the name is the line itself
C16_PrefixOnly ==
    /\ pc = "parsed"
    /\ ReportLines # <<>>
    /\ ReportLines[1] = Words("Station")
    /\ result.station_name = "Station"

\* ---------------------------------------------------------------- C19
\* the boundary of the pump section: the first line after the first pump
\* marker that is the word Summary or names a total; 0 when there is none
PumpBoundary(lines) ==
    LET start == FirstIndex([i \in DOMAIN lines |-> IsPumpLine(lines[i])])
    IN  FirstIndex([i \in DOMAIN lines |->
            /\ start > 0
            /\ i > start
            /\ \/ IsSummaryWord(lines[i])
               \/ AnyKeywordIn({"total"}, StrLower[lines[i].label])])

\* C19: the pump section ends at its boundary: pump_data is what the lines
\* before the boundary give, and no fuel line after a Total line or after the
\* Summary marker is added to a pump.
C19_PumpsStopAtBoundary ==
    (Returned /\ ~IsErrorResult(result) /\ PumpBoundary(ReportLines) > 0) =>
        result.pump_data =
            parse_pump_data(SubSeq(ReportLines, 1, PumpBoundary(ReportLines) - 1))

\* ---------------------------------------------------------------- C20
\* the line of the Summary marker, 0 when there is none
SummaryStart(lines) ==
    FirstIndex([i \in DOMAIN lines |-> IsSummaryMarker(lines[i])])

\* the lines after the marker start with a fuel line
FuelLineFollowsMarker(lines) ==
    /\ SummaryStart(lines) > 0
    /\ SummaryStart(lines) < Len(lines)
    /\ parse_fuel_line(lines[SummaryStart(lines) + 1]) # <<>>

\* C20: when the first line after the Summary marker is a fuel line, it is
\* the first entry of summary_data, whatever the later lines hold.
C20_FuelLineAfterMarkerCollected ==
    (Returned /\ ~IsErrorResult(result) /\ FuelLineFollowsMarker(ReportLines)) =>
        /\ result.summary_data # <<>>
        /\ result.summary_data[1] =
               parse_fuel_line(ReportLines[SummaryStart(ReportLines) + 1])[1]

\* ---------------------------------------------------------------- C17
\* the text was parsed twice and both records are at hand
ParsedTwice == pc = "parsed" /\ earlier # NoRecord

\* some line of the text gives extract_report_date a date
TextHasDate ==
    \E i \in DOMAIN ReportLines :
        \/ DateOfLine(ReportLines[i]) # <<>>
        \/ NumericDateOfLine(ReportLines[i]) # <<>>

\* the record without the two fields that follow the clock
SansClock(r) ==
    [k \in DOMAIN r \ {"report_date"} |->
        IF k = "metadata"
        THEN [f \in DOMAIN r.metadata \ {"parsed_at"} |-> r.metadata[f]]
        ELSE r[k]]

\* C17 as stated: two calls on the same text, at any two times, return
\* identical records, metadata and fallback date included.
C17_SameRecordTwice ==
    ParsedTwice => earlier = result

\* C17 as amended: the two records agree in every field but
\* metadata.parsed_at, and in report_date when the text gives a date; without
\* a date in the text, and in the error record, report_date is the day of
\* each call.
C17_SameButClock ==
    ParsedTwice =>
        /\ SansClock(earlier) = SansClock(result)
        /\ IF ~IsErrorResult(result) /\ TextHasDate
           THEN earlier.report_date = result.report_date
           ELSE /\ earlier.report_date = ParsedOn(earlier)
                /\ result.report_date = ParsedOn(result)

\* a report with three numbers for a date, parsed on two days: the records
\* differ in parsed_at only
C17_TwoDaysOneDate ==
    /\ ParsedTwice
    /\ ~IsErrorResult(result)
    /\ TextHasDate
    /\ \A i \in DOMAIN ReportLines : ReportLines[i].dates = <<>>
    /\ earlier.metadata.parsed_at = 0
    /\ result.metadata.parsed_at = 1
    /\ earlier.report_date = result.report_date

\* ---------------------------------------------------------------- C18
\* the fields of a record the claim names
NamedFields(r) ==
    [fuel_data |-> r.fuel_data, total_sales |-> r.total_sales,
     station_name |-> r.station_name, report_date |-> r.report_date]

\* C18: no call writes to the parser, and under every interleaving of the
\* calls on one parser each call returns the fuel_data, totals, station and
\* date that the call gives when it runs alone.
C18_CallsDoNotInterfere ==
    /\ parser = ReportParser
    /\ \A c \in CallIds :
           calls[c].pc = "returned" =>
               NamedFields(calls[c].result) =
                   NamedFields(parse_daily_report(calls[c].text, now).result)

\* call 1 has returned a mapped record while call 2, on another text, stands
\* between its selection and its mapping step
C18_ReturnedWhileOtherSelected ==
    /\ calls[1].pc = "returned"
    /\ calls[2].pc = "selected"
    /\ calls[1].text # calls[2].text
    /\ calls[1].result.fuel_data # <<>>
    /\ calls[1].result.fuel_data[1].fuel_type # calls[1].result.fuel_data[1].original_fuel_type
    /\ calls[2].fuel_data # <<>>

\* ---------------------------------------------------------------- C21
\* the entries the pumps of the record report, pump after pump
PumpEntries == Flatten([i \in DOMAIN result.pump_data |-> result.pump_data[i].fuels])

\* the pump entries of one canonical fuel type
PumpEntriesOf(fuel_type) ==
    SelectSeq(PumpEntries, LAMBDA e : MapFuelType(e.fuel_type) = fuel_type)

\* C21: in a report with pumps and no summary, fuel_data has exactly one entry
\* for every fuel type the pumps report, with the sums of volume and amount
\* over the pump entries of that type and their number as pump_count.
C21_OneEntryPerPumpFuelType ==
    (Returned /\ ~IsErrorResult(result) /\ result.pump_data # <<>>
        /\ result.summary_data = <<>>) =>
        /\ \A i, j \in DOMAIN result.fuel_data :
               result.fuel_data[i].fuel_type = result.fuel_data[j].fuel_type => i = j
        /\ \A k \in DOMAIN PumpEntries :
               \E i \in DOMAIN result.fuel_data :
                   LET entry == result.fuel_data[i]
                       same == PumpEntriesOf(entry.fuel_type)
                   IN  /\ entry.fuel_type = MapFuelType(PumpEntries[k].fuel_type)
                       /\ entry.volume = SumOver(same, "volume")
                       /\ entry.amount = SumOver(same, "amount")
                       /\ entry.pump_count = Len(same)

\* ---------------------------------------------------------------- C22
\* the line begins with a station prefix: extract_station_name removes it
HasStationPrefix(line) == LabelSansPrefix[line.label][1] # line.label

\* the first line has no station prefix and one of lines 2 to 5 has one
StationOnLaterLine ==
    /\ Returned
    /\ ~IsErrorResult(result)
    /\ ~HasStationPrefix(ReportLines[1])
    /\ \E i \in DOMAIN ReportLines : 1 < i /\ i <= 5 /\ HasStationPrefix(ReportLines[i])

\* C22 as stated: when the first line carries no station information and one
\* of lines 2 to 5 carries the station prefix, the station name is taken from
\* that later line.
C22_StationFromLaterLine ==
    StationOnLaterLine =>
        \E i \in DOMAIN ReportLines :
            /\ 1 < i /\ i <= 5 /\ HasStationPrefix(ReportLines[i])
            /\ result.station_name = extract_station_name(ReportLines[i])

\* C22 as amended: the station name is taken from the first non-blank line
\* alone, whatever the later lines hold: it is the name of the report that
\* ends after its first line.
C22_StationFromFirstLine ==
    (Returned /\ ~IsErrorResult(result)) =>
        result.station_name =
            parse_daily_report(Text(<<ReportLines[1]>>), now).result.station_name

\* a title on the first line and "Station X" on the second: the name is the
\* title
C22_TitleIsStation ==
    /\ pc = "parsed"
    /\ StationOnLaterLine
    /\ ReportLines[2] = Words("Station X")
    /\ result.station_name # "X"
    /\ result.station_name = extract_station_name(ReportLines[1])

\* ---------------------------------------------------------------- C23
\* the report is one line of three numbers, the last a year of two digits
TwoDigitYearLine ==
    /\ Returned
    /\ ~IsErrorResult(result)
    /\ Len(ReportLines) = 1
    /\ ReportLines[1].label = ""
    /\ ReportLines[1].dates = <<>>
    /\ Len(ReportLines[1].nums) = 3
    /\ \A i \in 1..3 : IsPlain(ReportLines[1].nums[i])
    /\ ReportLines[1].nums[3].val < 50

\* C23: the first permutation of the three numbers that forms a valid date is
\* returned, a year of two digits counted from 2000: "1 2 24" gives
\* 01/02/24, not the current date.
C23_TwoDigitYearNormalized ==
    TwoDigitYearLine =>
        LET n == ReportLines[1].nums
        IN  ValidDate(n[1].val, n[2].val, 2000 + n[3].val) =>
                result.report_date =
                    StrftimeDMY([d |-> n[1].val, m |-> n[2].val, y |-> 2000 + n[3].val])

\* ---------------------------------------------------------------- C26
\* C26: in every record with fuel data the total volume is positive and
\* within 5 percent of the sum of the fuel_data volumes.
C26_TotalPositiveAndConsistent ==
    (Returned /\ ~IsErrorResult(result) /\ result.fuel_data # <<>>) =>
        /\ result.total_sales.volume > 0
        /\ Abs(SumOver(result.fuel_data, "volume") - result.total_sales.volume) * 100
               <= 5 * result.total_sales.volume

\* ------------------------------------------- the claims on the database
\* C24: handle_report saves a message only when no report of its
\* (station_name, report_date) is stored, so that save_report returns True
\* at most once for each such key.
C24_EachKeySavedOnce == \A key \in DOMAIN saves : saves[key] <= 1

RECURSIVE SumOfRows(_, _, _)
\* the sum of a column over the rows of fuel_reports with the given keys
SumOfRows(rows, keys, column) ==
    IF keys = {} THEN 0
    ELSE LET key == CHOOSE k \in keys : TRUE
         IN  rows[key][column] + SumOfRows(rows, keys \ {key}, column)

\* the keys of the fuel_reports rows of one station and date
FuelRowsOf(tables, summary_key) ==
    {key \in DOMAIN tables.fuel_reports :
        key[1] = summary_key[1] /\ key[2] = summary_key[2]}

\* C27: save_report is all-or-nothing.  When it returns False the committed
\* tables are those it found; when it returns True they are those every one
\* of its statements wrote.
C27_SaveAllOrNothing ==
    [][(handler.pc \in {"unique", "saving"} /\ handler'.pc = "idle")
       => IF handler'.returned = <<TRUE>>
          THEN database' = SaveStatements(database, handler.data)
          ELSE database' = database]_vars

\* a save_report that had written rows returned False and none is committed
C27_FailedAfterWriting ==
    /\ handler.returned = <<FALSE>>
    /\ ~txn.open
    /\ txn.work # database
    /\ txn.work.fuel_reports # database.fuel_reports

\* C28: for every daily_summary row, total_volume and total_amount are the
\* sums of volume and amount over the fuel_reports rows of its key.
C28_SummaryIsSumOfFuelRows ==
    \A key \in DOMAIN database.daily_summary :
        /\ database.daily_summary[key].volume["total"]
               = SumOfRows(database.fuel_reports, FuelRowsOf(database, key), "volume")
        /\ database.daily_summary[key].amount["total"]
               = SumOfRows(database.fuel_reports, FuelRowsOf(database, key), "amount")

\* ------------------------------------------- the claims on services.py
\* a dd/mm/yy date: strptime under "%d/%m/%y" accepts it
IsDayMonthYear(report_date) == Strptime(Format("/", <<"d", "m", "y">>), report_date) # <<>>

\* C25: once save_report has stored a report with at least one fuel for
\* station s under a valid dd/mm/yy date d, report_exists(s, d) returns true.
C25_SavedReportExists ==
    \A call \in Range(service.asked) :
        (/\ <<call.station_name, call.report_date>> \in service.saved
         /\ IsDayMonthYear(call.report_date))
        => call.returned

C30_ResolvedIsShown ==
    last_update.kind = "station" => last_update.station = <<last_update.button.text>>

====
